---- MODULE Spec2Model ----
(***************************************************************************)
(* Model of the advert sender of the consensus manager                     *)
(* (rs/p2p/consensus_manager/src/sender.rs): the event loop of             *)
(* ConsensusManagerSender, its SlotManager, and the life cycle of the      *)
(* Broadcast Tasks (send_advert_to_all_peers) it spawns and aborts.        *)
(***************************************************************************)
EXTENDS Integers, Sequences, FiniteSets, TLC

\* Artifact identities (Artifact::Id) that occur in the pool and in events.
Ids == {"a", "b", "c"}

\* Largest number of artifacts found in the validated pool at startup.
MaxPool == 1

\* Largest number of events taken from the adverts_to_send channel.
MaxEvents == 4

VARIABLES
    loop_pc,                      \* position of start_event_loop
    artifacts_in_validated_pool,  \* artifacts the replay loop still has to handle
    current_commit_id,            \* ConsensusManagerSender.current_commit_id
    active_adverts,               \* ConsensusManagerSender.active_adverts
    slot_manager,                 \* ConsensusManagerSender.slot_manager
    metrics,                      \* ConsensusManagerMetrics counters the sender touches
    tasks,                        \* every Broadcast Task spawned so far, in spawn order
    startup_adverts,              \* history: adverts synthesized by the startup replay
    stream_events,                \* history: events taken from adverts_to_send
    last_event,                   \* history: the event handled last and what it met
    last_kind                     \* history: per identity, the kind of its latest event

\* The inside of one Broadcast Task (send_advert_to_all_peers) and the
\* transport and storage it talks to.
VARIABLES
    enable_artifact_push,         \* ENABLE_ARTIFACT_PUSH of the build
    advert,                       \* the advert the task was spawned with
    artifact_in_pool,             \* get_validated_by_identifier finds the artifact
    body,                         \* << the serialized AdvertUpdate >> once built
    completed_transmissions,      \* peer -> ConnId of the last successful transmission
    in_progress_transmissions,    \* the JoinMap of Peer Transmitters
    tick_peers,                   \* what `for .. in transport.peers()` still has to visit
    join_result,                  \* << the result join_next() handed out >>
    transport,                    \* per peer: membership, reachability, ConnId
    pushed,                       \* history: the messages handed to transport.push
    delivered_at                  \* history: per peer, the ConnId the peer had when
                                  \* the push of its recorded delivery was accepted

sender_vars ==
    << loop_pc, artifacts_in_validated_pool, current_commit_id, active_adverts,
       slot_manager, metrics, tasks, startup_adverts, stream_events, last_event,
       last_kind >>

broadcast_vars ==
    << enable_artifact_push, advert, artifact_in_pool, body, completed_transmissions,
       in_progress_transmissions, tick_peers, join_result, transport, pushed,
       delivered_at >>

\* The locals of every Broadcast Task, for the specifications that run several
\* tasks side by side, and the channel the event loop receives from, for the
\* specification that has its producer.
VARIABLES
    task_locals,                  \* task -> its completed_transmissions and JoinMap
    adverts_to_send,              \* the mpsc channel: queued events, closed or not
    peak_active_adverts           \* history: the largest size active_adverts had

system_vars == << task_locals, adverts_to_send, peak_active_adverts >>

vars == << sender_vars, broadcast_vars, system_vars >>

Last(s) == s[Len(s)]

Front(s) == SubSeq(s, 1, Len(s) - 1)

Range(s) == {s[i] : i \in DOMAIN s}

\* Snapshots get_all_validated_by_filter can yield: distinct artifacts, any order.
PoolSnapshots ==
    {s \in UNION {[1..n -> Ids] : n \in 0..MaxPool} :
        \A i, j \in DOMAIN s : i # j => s[i] # s[j]}

\* Used to log warnings if the slot table grows beyond the threshold.
SLOT_TABLE_THRESHOLD == 30000

(***************************************************************************)
(* SlotManager                                                             *)
(***************************************************************************)

\* SlotManager::new
SlotManagerNew == [next_free_slot |-> 0, free_slots |-> <<>>, warnings |-> 0]

\* ConsensusManagerMetrics as registered: every counter at 0.
MetricsNew ==
    [send_view_consensus_new_adverts_total |-> 0,
     send_view_consensus_dup_adverts_total |-> 0,
     send_view_consensus_purge_active_total |-> 0,
     send_view_consensus_dup_purge_total |-> 0,
     slot_manager_used_slots |-> 0,
     slot_manager_maximum_slots_total |-> 0]

\* Mutant of give_slot: the slot is pushed twice.
give_slot_twice(sm, m, slot) ==
    [slot_manager |-> [sm EXCEPT !.free_slots = Append(Append(@, slot), slot)],
     metrics |-> [m EXCEPT !.slot_manager_used_slots = @ - 1]]

\* SlotManager::give_slot
give_slot(sm, m, slot) ==
    [slot_manager |-> [sm EXCEPT !.free_slots = Append(@, slot)],
     metrics |-> [m EXCEPT !.slot_manager_used_slots = @ - 1]]

\* Mutant of take_free_slot: the free pool is served oldest first (FIFO).
take_free_slot_fifo(sm, m) ==
    LET m1 == [m EXCEPT !.slot_manager_used_slots = @ + 1]
    IN  IF sm.free_slots # <<>>
        THEN [slot |-> Head(sm.free_slots),
              slot_manager |-> [sm EXCEPT !.free_slots = Tail(@)],
              metrics |-> m1]
        ELSE [slot |-> sm.next_free_slot,
              slot_manager |-> [sm EXCEPT !.next_free_slot = @ + 1],
              metrics |-> [m1 EXCEPT !.slot_manager_maximum_slots_total = @ + 1]]

\* Mutant of take_free_slot: the slot is read from the free pool but not popped.
take_free_slot_peek(sm, m) ==
    LET m1 == [m EXCEPT !.slot_manager_used_slots = @ + 1]
    IN  IF sm.free_slots # <<>>
        THEN [slot |-> Last(sm.free_slots), slot_manager |-> sm, metrics |-> m1]
        ELSE [slot |-> sm.next_free_slot,
              slot_manager |-> [sm EXCEPT !.next_free_slot = @ + 1],
              metrics |-> [m1 EXCEPT !.slot_manager_maximum_slots_total = @ + 1]]

\* Mutant of take_free_slot: the warning is already logged at the threshold.
take_free_slot_warn_at(sm, m) ==
    LET m1 == [m EXCEPT !.slot_manager_used_slots = @ + 1]
    IN  IF sm.free_slots # <<>>
        THEN [slot |-> Last(sm.free_slots),
              slot_manager |-> [sm EXCEPT !.free_slots = Front(@)],
              metrics |-> m1]
        ELSE [slot |-> sm.next_free_slot,
              slot_manager |->
                  [sm EXCEPT !.next_free_slot = @ + 1,
                             !.warnings =
                                 IF sm.next_free_slot >= SLOT_TABLE_THRESHOLD
                                 THEN @ + 1 ELSE @],
              metrics |-> [m1 EXCEPT !.slot_manager_maximum_slots_total = @ + 1]]

\* SlotManager::take_free_slot
take_free_slot(sm, m) ==
    LET m1 == [m EXCEPT !.slot_manager_used_slots = @ + 1]
    IN  IF sm.free_slots # <<>>
        THEN [slot |-> Last(sm.free_slots),
              slot_manager |-> [sm EXCEPT !.free_slots = Front(@)],
              metrics |-> m1]
        ELSE [slot |-> sm.next_free_slot,
              slot_manager |->
                  [sm EXCEPT !.next_free_slot = @ + 1,
                             !.warnings =
                                 IF sm.next_free_slot > SLOT_TABLE_THRESHOLD
                                 THEN @ + 1 ELSE @],
              metrics |-> [m1 EXCEPT !.slot_manager_maximum_slots_total = @ + 1]]

(***************************************************************************)
(* Broadcast Tasks                                                         *)
(***************************************************************************)

\* The future send_advert_to_all_peers(commit_id, slot, advert) handed to
\* rt_handle.spawn: not polled yet, no abort requested.
SpawnedTask(id, commit_id, slot) ==
    [id |-> id, commit_id |-> commit_id, slot_number |-> slot,
     pc |-> "start", aborted |-> FALSE]

\* Mutant of abort: the purge leaves the task running.
abort_ignored(ts, t) == ts

\* JoinHandle::abort: cancellation is requested; a task that is being polled
\* keeps running up to its next suspension point.
abort(ts, t) == [ts EXCEPT ![t].aborted = TRUE]

\* A task that can still take steps of its own: it is not dropped, and an
\* abort request only leaves it running while it is between suspension points.
TaskActive(t) ==
    /\ tasks[t].pc # "cancelled"
    /\ tasks[t].aborted => tasks[t].pc = "tick"

(***************************************************************************)
(* ConsensusManagerSender                                                  *)
(***************************************************************************)

\* Mutant of handle_send_advert: the Occupied case is not told apart.
handle_send_advert_always(id) ==
    LET taken == take_free_slot(slot_manager, metrics)
    IN  /\ slot_manager' = taken.slot_manager
        /\ metrics' =
               [taken.metrics EXCEPT !.send_view_consensus_new_adverts_total = @ + 1]
        /\ tasks' = Append(tasks, SpawnedTask(id, current_commit_id, taken.slot))
        /\ active_adverts' =
               [i \in DOMAIN active_adverts \cup {id} |->
                   IF i = id
                   THEN [task |-> Len(tasks) + 1, slot |-> taken.slot]
                   ELSE active_adverts[i]]

\* ConsensusManagerSender::handle_send_advert
handle_send_advert(id) ==
    IF id \notin DOMAIN active_adverts
    THEN LET taken ==
                 take_free_slot(
                     slot_manager,
                     [metrics EXCEPT !.send_view_consensus_new_adverts_total = @ + 1])
         IN  /\ slot_manager' = taken.slot_manager
             /\ metrics' = taken.metrics
             /\ tasks' = Append(tasks, SpawnedTask(id, current_commit_id, taken.slot))
             /\ active_adverts' =
                    [i \in DOMAIN active_adverts \cup {id} |->
                        IF i = id
                        THEN [task |-> Len(tasks) + 1, slot |-> taken.slot]
                        ELSE active_adverts[i]]
    ELSE /\ metrics' = [metrics EXCEPT !.send_view_consensus_dup_adverts_total = @ + 1]
         /\ UNCHANGED <<slot_manager, tasks, active_adverts>>

\* Mutant of handle_purge_advert: the record is looked up but not removed.
handle_purge_advert_keep(id) ==
    IF id \in DOMAIN active_adverts
    THEN LET given ==
                 give_slot(
                     slot_manager,
                     [metrics EXCEPT !.send_view_consensus_purge_active_total = @ + 1],
                     active_adverts[id].slot)
         IN  /\ UNCHANGED active_adverts
             /\ tasks' = abort(tasks, active_adverts[id].task)
             /\ slot_manager' = given.slot_manager
             /\ metrics' = given.metrics
    ELSE /\ metrics' = [metrics EXCEPT !.send_view_consensus_dup_purge_total = @ + 1]
         /\ UNCHANGED <<slot_manager, tasks, active_adverts>>

\* Mutant of handle_purge_advert: an absent identity gives back slot 0.
handle_purge_advert_absent(id) ==
    LET slot == IF id \in DOMAIN active_adverts THEN active_adverts[id].slot ELSE 0
        given ==
            give_slot(
                slot_manager,
                [metrics EXCEPT !.send_view_consensus_purge_active_total = @ + 1],
                slot)
    IN  /\ active_adverts' = [i \in DOMAIN active_adverts \ {id} |-> active_adverts[i]]
        /\ tasks' =
               IF id \in DOMAIN active_adverts
               THEN abort(tasks, active_adverts[id].task) ELSE tasks
        /\ slot_manager' = given.slot_manager
        /\ metrics' = given.metrics

\* ConsensusManagerSender::handle_purge_advert
handle_purge_advert(id) ==
    IF id \in DOMAIN active_adverts
    THEN LET given ==
                 give_slot(
                     slot_manager,
                     [metrics EXCEPT !.send_view_consensus_purge_active_total = @ + 1],
                     active_adverts[id].slot)
         IN  /\ active_adverts' =
                    [i \in DOMAIN active_adverts \ {id} |-> active_adverts[i]]
             /\ tasks' = abort(tasks, active_adverts[id].task)
             /\ slot_manager' = given.slot_manager
             /\ metrics' = given.metrics
    ELSE /\ metrics' = [metrics EXCEPT !.send_view_consensus_dup_purge_total = @ + 1]
         /\ UNCHANGED <<slot_manager, tasks, active_adverts>>

\* Mutant of inc_assign: the commit id is left as it is.
inc_assign_skip(commit_id) == commit_id

\* CommitId::inc_assign, as start_event_loop applies it after each stream event.
inc_assign(commit_id) == commit_id + 1

\* What the history records of an event: its kind, its identity, where it came
\* from, and whether the identity was in active_adverts when it was handled.
Event(kind, id, source) ==
    [kind |-> kind, id |-> id, source |-> source, active |-> id \in DOMAIN active_adverts]

\* The inside of a Broadcast Task before any task was polled.
BroadcastIdle ==
    /\ enable_artifact_push = FALSE
    /\ advert = [id |-> "none", size |-> 0]
    /\ artifact_in_pool = FALSE
    /\ body = << >>
    /\ completed_transmissions = << >>
    /\ in_progress_transmissions = {}
    /\ tick_peers = << >>
    /\ join_result = << >>
    /\ transport = << >>
    /\ pushed = {}
    /\ delivered_at = << >>

\* No Broadcast Task has been polled; the channel is left to the environment
\* (recv() yields whatever event comes next), nothing is queued in it; the
\* peak of active_adverts is recorded only by the specification that follows it.
SystemIdle ==
    /\ task_locals = << >>
    /\ adverts_to_send = [queue |-> << >>, closed |-> FALSE, sent |-> 0]
    /\ peak_active_adverts = 0

\* What a step of the event loop leaves alone: the inside of a Broadcast Task.
BroadcastUnchanged == UNCHANGED << broadcast_vars, system_vars >>

\* ConsensusManagerSender::run: the state start_event_loop starts from, with
\* the snapshot of the validated pool it reads first.
Init ==
    /\ BroadcastIdle
    /\ SystemIdle
    /\ loop_pc = "replay"
    /\ artifacts_in_validated_pool \in PoolSnapshots
    /\ current_commit_id = 0
    /\ active_adverts = << >>
    /\ slot_manager = SlotManagerNew
    /\ metrics = MetricsNew
    /\ tasks = << >>
    /\ startup_adverts = 0
    /\ stream_events = 0
    /\ last_event = [kind |-> "none", id |-> "none", source |-> "none", active |-> FALSE]
    /\ last_kind = [i \in Ids |-> "none"]

\* start_event_loop, one iteration of `for artifact in artifacts_in_validated_pool`.
ReplayAdvert ==
    /\ BroadcastUnchanged
    /\ loop_pc = "replay"
    /\ artifacts_in_validated_pool # << >>
    /\ LET id == Head(artifacts_in_validated_pool)
       IN  /\ handle_send_advert(id)
           /\ last_event' = Event("Advert", id, "replay")
           /\ last_kind' = [last_kind EXCEPT ![id] = "Advert"]
    /\ artifacts_in_validated_pool' = Tail(artifacts_in_validated_pool)
    /\ startup_adverts' = startup_adverts + 1
    /\ UNCHANGED <<loop_pc, current_commit_id, stream_events>>

\* Mutant of ReplayDone: the replay loop is left with artifacts unhandled.
ReplayDone_early ==
    /\ BroadcastUnchanged
    /\ loop_pc = "replay"
    /\ loop_pc' = "recv"
    /\ UNCHANGED << artifacts_in_validated_pool, current_commit_id, active_adverts,
                    slot_manager, metrics, tasks, startup_adverts, stream_events,
                    last_event, last_kind >>

\* start_event_loop: the replay loop is over, the loop starts to await recv().
ReplayDone ==
    /\ BroadcastUnchanged
    /\ loop_pc = "replay"
    /\ artifacts_in_validated_pool = << >>
    /\ loop_pc' = "recv"
    /\ UNCHANGED << artifacts_in_validated_pool, current_commit_id, active_adverts,
                    slot_manager, metrics, tasks, startup_adverts, stream_events,
                    last_event, last_kind >>

\* start_event_loop: recv() yields ArtifactProcessorEvent::Advert(advert).
RecvAdvert(id) ==
    /\ BroadcastUnchanged
    /\ loop_pc = "recv"
    /\ stream_events < MaxEvents
    /\ handle_send_advert(id)
    /\ current_commit_id' = inc_assign(current_commit_id)
    /\ stream_events' = stream_events + 1
    /\ last_event' = Event("Advert", id, "stream")
    /\ last_kind' = [last_kind EXCEPT ![id] = "Advert"]
    /\ UNCHANGED <<loop_pc, artifacts_in_validated_pool, startup_adverts>>

\* start_event_loop: recv() yields ArtifactProcessorEvent::Purge(id).
RecvPurge(id) ==
    /\ BroadcastUnchanged
    /\ loop_pc = "recv"
    /\ stream_events < MaxEvents
    /\ handle_purge_advert(id)
    /\ current_commit_id' = inc_assign(current_commit_id)
    /\ stream_events' = stream_events + 1
    /\ last_event' = Event("Purge", id, "stream")
    /\ last_kind' = [last_kind EXCEPT ![id] = "Purge"]
    /\ UNCHANGED <<loop_pc, artifacts_in_validated_pool, startup_adverts>>

\* Mutant of RecvNone: leaving the loop aborts the tasks of active_adverts.
RecvNone_abort ==
    /\ BroadcastUnchanged
    /\ loop_pc = "recv"
    /\ loop_pc' = "done"
    /\ tasks' =
           [t \in DOMAIN tasks |->
               IF \E id \in DOMAIN active_adverts : active_adverts[id].task = t
               THEN [tasks[t] EXCEPT !.aborted = TRUE]
               ELSE tasks[t]]
    /\ UNCHANGED << artifacts_in_validated_pool, current_commit_id, active_adverts,
                    slot_manager, metrics, startup_adverts, stream_events,
                    last_event, last_kind >>

\* start_event_loop: recv() yields None (the channel is closed and empty).
RecvNone ==
    /\ BroadcastUnchanged
    /\ loop_pc = "recv"
    /\ loop_pc' = "done"
    /\ UNCHANGED << artifacts_in_validated_pool, current_commit_id, active_adverts,
                    slot_manager, metrics, tasks, startup_adverts, stream_events,
                    last_event, last_kind >>

\* What a step of a Broadcast Task leaves alone: everything the sender owns.
EventLoopUnchanged ==
    UNCHANGED << loop_pc, artifacts_in_validated_pool, current_commit_id,
                 active_adverts, slot_manager, metrics, startup_adverts,
                 stream_events, last_event, last_kind >>

\* The same for a step of the one task whose inside is in broadcast_vars.
SenderUnchanged == EventLoopUnchanged /\ UNCHANGED system_vars

\* send_advert_to_all_peers, first poll: the message is built and the task
\* suspends in select!.
TaskStart(t) ==
    /\ BroadcastUnchanged
    /\ tasks[t].pc = "start"
    /\ ~tasks[t].aborted
    /\ tasks' = [tasks EXCEPT ![t].pc = "select"]
    /\ SenderUnchanged

\* send_advert_to_all_peers: periodic_check_interval.tick() is ready and the
\* task is polled; it runs the tick branch.
TaskTick(t) ==
    /\ BroadcastUnchanged
    /\ tasks[t].pc = "select"
    /\ ~tasks[t].aborted
    /\ tasks' = [tasks EXCEPT ![t].pc = "tick"]
    /\ SenderUnchanged

\* send_advert_to_all_peers: the tick branch is over, the task suspends in
\* select! again (also when an abort was requested meanwhile).
TaskTickDone(t) ==
    /\ BroadcastUnchanged
    /\ tasks[t].pc = "tick"
    /\ tasks' = [tasks EXCEPT ![t].pc = "select"]
    /\ SenderUnchanged

\* The runtime drops an aborted task found at a suspension point.
TaskDrop(t) ==
    /\ BroadcastUnchanged
    /\ tasks[t].pc \in {"start", "select"}
    /\ tasks[t].aborted
    /\ tasks' = [tasks EXCEPT ![t].pc = "cancelled"]
    /\ SenderUnchanged

Next ==
    \/ ReplayAdvert
    \/ ReplayDone
    \/ \E id \in Ids : RecvAdvert(id)
    \/ \E id \in Ids : RecvPurge(id)
    \/ RecvNone
    \/ \E t \in DOMAIN tasks : TaskStart(t)
    \/ \E t \in DOMAIN tasks : TaskTick(t)
    \/ \E t \in DOMAIN tasks : TaskTickDone(t)
    \/ \E t \in DOMAIN tasks : TaskDrop(t)

Spec == Init /\ [][Next]_vars

(***************************************************************************)
(* One Broadcast Task with its Peer Transmitters                           *)
(***************************************************************************)

\* Peers (NodeId) the transport may report, in the order peers() yields them.
PeerOrder == << "p" >>

Peers == Range(PeerOrder)

\* Largest connection identifier (ConnId) a peer reaches by reconnecting.
MaxConn == 3

\* Number of durations next_backoff() yields before the schedule is exhausted
\* (MAX_ELAPSED_TIME has passed) and it yields None.
BackoffSteps == 1

ENABLE_ARTIFACT_PUSH == FALSE

\* Artifact push threshold. Artifacts smaller or equal than this are pushed.
ARTIFACT_PUSH_THRESHOLD == 5 * 1024

\* Declared sizes (advert.size) around the threshold.
AdvertSizes == (ARTIFACT_PUSH_THRESHOLD - 12)..(ARTIFACT_PUSH_THRESHOLD + 12)

\* Mutant of push_artifact: the threshold itself is excluded.
push_artifact_below(enabled, size) == enabled /\ size < ARTIFACT_PUSH_THRESHOLD

\* send_advert_to_all_peers: `ENABLE_ARTIFACT_PUSH && advert.size <= ARTIFACT_PUSH_THRESHOLD`
push_artifact(enabled, size) == enabled /\ size <= ARTIFACT_PUSH_THRESHOLD

\* send_advert_to_all_peers: the Data of the message, chosen once.
select_data(enabled, adv, found) ==
    IF push_artifact(enabled, adv.size)
    THEN IF found
         THEN [kind |-> "Artifact", id |-> adv.id]
         ELSE [kind |-> "Advert", id |-> adv.id]
    ELSE [kind |-> "Advert", id |-> adv.id]

\* Mutant of advert_update: the commit id is read from the sender when the
\* message is built instead of being the one passed at spawn.
advert_update_current(task, data) ==
    [slot_number |-> task.slot_number, commit_id |-> current_commit_id, data |-> data]

\* send_advert_to_all_peers: AdvertUpdate {slot_number, commit_id, data}, serialized.
advert_update(task, data) ==
    [slot_number |-> task.slot_number, commit_id |-> task.commit_id, data |-> data]

\* Transport::peers: the peers connected now, each with its ConnId.
peers(tp) ==
    LET present(x) == tp[x].state # "absent"
        ps == SelectSeq(PeerOrder, present)
    IN  [i \in DOMAIN ps |-> << ps[i], tp[ps[i]].conn >>]

\* Mutant of is_completed: any recorded delivery counts, whatever its ConnId.
is_completed_any(completed, peer, connection_id) == peer \in DOMAIN completed

\* Mutant of is_completed: nothing counts as completed.
is_completed_never(completed, peer, connection_id) == FALSE

\* send_advert_to_all_peers: completed_transmissions.get(&peer).is_some_and(|c| *c == connection_id)
is_completed(completed, peer, connection_id) ==
    peer \in DOMAIN completed /\ completed[peer] = connection_id

\* Mutant of TransmissionKey: transmissions are keyed by peer and ConnId.
TransmissionKeyConn(peer, connection_id) == << peer, connection_id >>

\* send_advert_to_all_peers: the key handed to spawn_on is the peer.
TransmissionKey(peer, connection_id) == peer

\* send_advert_to_peer(transport, connection_id, message, peer, ..) as spawned:
\* its first push is under way.
send_advert_to_peer(connection_id, message, peer) ==
    [peer |-> peer, connection_id |-> connection_id, message |-> message,
     pc |-> "pushing", backoff |-> 0, sleep |-> "none", result |-> 0,
     accepted_at |-> 0]

\* A Peer Transmitter that has neither returned nor been cancelled.
Live(r) == r.pc \in {"pushing", "sleeping"}

\* JoinMap::spawn_on: the task is spawned under key unless a transmission
\* under that key is still in the map.
spawn_on(map, key, task) ==
    IF \E r \in map : r.key = key
    THEN map
    ELSE map \cup {[key |-> key] @@ task}

\* JoinMap::join_next: the results ready to be handed out.
join_ready(map) == {r \in map : r.pc = "done"}

\* Dropping the JoinMap aborts every transmission it holds.
join_map_drop(map) == {[r EXCEPT !.pc = "cancelled"] : r \in map}

\* Mutant of push_accepted: the ConnId the peer has now is returned.
push_accepted_now(r, conn_now) ==
    [r EXCEPT !.pc = "done", !.result = conn_now, !.accepted_at = conn_now]

\* send_advert_to_peer: transport.push returned Ok(()); `return connection_id`.
push_accepted(r, conn_now) ==
    [r EXCEPT !.pc = "done", !.result = r.connection_id, !.accepted_at = conn_now]

\* Mutant of push_failed: with the schedule exhausted the transmitter returns.
push_failed_gives_up(r) ==
    IF r.backoff < BackoffSteps
    THEN [r EXCEPT !.pc = "sleeping", !.backoff = @ + 1, !.sleep = "next_backoff"]
    ELSE [r EXCEPT !.pc = "done", !.result = r.connection_id]

\* send_advert_to_peer: transport.push failed;
\* `backoff.next_backoff().unwrap_or(MAX_ELAPSED_TIME)`, then sleep.
push_failed(r) ==
    IF r.backoff < BackoffSteps
    THEN [r EXCEPT !.pc = "sleeping", !.backoff = @ + 1, !.sleep = "next_backoff"]
    ELSE [r EXCEPT !.pc = "sleeping", !.sleep = "MAX_ELAPSED_TIME"]

\* HashMap::insert
insert(map, key, value) ==
    [k \in DOMAIN map \cup {key} |-> IF k = key THEN value ELSE map[k]]

\* Mutant of record_delivery: the result of a transmission is dropped.
record_delivery_drop(completed, result) == completed

\* send_advert_to_all_peers: completed_transmissions.insert(peer, connection_id)
record_delivery(completed, result) ==
    insert(completed, result.peer, result.connection_id)

\* The sender right after its event loop took Advert(a) as its first stream
\* event: the Broadcast Task of a is spawned with commit id 0 and slot 0.
SenderAfterFirstAdvert ==
    /\ loop_pc = "recv"
    /\ artifacts_in_validated_pool = << >>
    /\ current_commit_id = inc_assign(0)
    /\ active_adverts = [i \in {"a"} |-> [task |-> 1, slot |-> 0]]
    /\ slot_manager = take_free_slot(SlotManagerNew, MetricsNew).slot_manager
    /\ metrics =
           [take_free_slot(SlotManagerNew, MetricsNew).metrics
               EXCEPT !.send_view_consensus_new_adverts_total = @ + 1]
    /\ tasks = << SpawnedTask("a", 0, 0) >>
    /\ startup_adverts = 0
    /\ stream_events = 1
    /\ last_event = [kind |-> "Advert", id |-> "a", source |-> "stream", active |-> FALSE]
    /\ last_kind = [i \in Ids |-> IF i = "a" THEN "Advert" ELSE "none"]

\* The inside of the Broadcast Task of a as spawned, with the transport in
\* any state: every peer on its first connection, or not connected.
BroadcastInit ==
    /\ SystemIdle
    /\ SenderAfterFirstAdvert
    /\ enable_artifact_push = ENABLE_ARTIFACT_PUSH
    /\ advert = [id |-> "a", size |-> ARTIFACT_PUSH_THRESHOLD]
    /\ artifact_in_pool = TRUE
    /\ body = << >>
    /\ completed_transmissions = << >>
    /\ in_progress_transmissions = {}
    /\ tick_peers = << >>
    /\ join_result = << >>
    /\ transport \in [Peers -> [state : {"absent", "unreachable", "ok"}, conn : {1}]]
    /\ pushed = {}
    /\ delivered_at = << >>

\* send_advert_to_all_peers, first poll: payload selection, the message is
\* built and serialized, the task suspends in select!.
BroadcastStart(t) ==
    /\ tasks[t].pc = "start"
    /\ ~tasks[t].aborted
    /\ body' =
           << advert_update(tasks[t],
                            select_data(enable_artifact_push, advert, artifact_in_pool)) >>
    /\ tasks' = [tasks EXCEPT ![t].pc = "select"]
    /\ SenderUnchanged
    /\ UNCHANGED << enable_artifact_push, advert, artifact_in_pool,
                    completed_transmissions, in_progress_transmissions, tick_peers,
                    join_result, transport, pushed, delivered_at >>

\* select!: periodic_check_interval.tick() is taken; transport.peers() is read.
BroadcastTick(t) ==
    /\ tasks[t].pc = "select"
    /\ ~tasks[t].aborted
    /\ tasks' = [tasks EXCEPT ![t].pc = "tick"]
    /\ tick_peers' = peers(transport)
    /\ SenderUnchanged
    /\ UNCHANGED << enable_artifact_push, advert, artifact_in_pool, body,
                    completed_transmissions, in_progress_transmissions, join_result,
                    transport, pushed, delivered_at >>

\* One iteration of `for (peer, connection_id) in transport.peers()`.
BroadcastTickPeer(t) ==
    /\ tasks[t].pc = "tick"
    /\ tick_peers # << >>
    /\ LET peer == Head(tick_peers)[1]
           connection_id == Head(tick_peers)[2]
       IN  in_progress_transmissions' =
               IF ~is_completed(completed_transmissions, peer, connection_id)
               THEN spawn_on(in_progress_transmissions,
                             TransmissionKey(peer, connection_id),
                             send_advert_to_peer(connection_id, body[1], peer))
               ELSE in_progress_transmissions
    /\ tick_peers' = Tail(tick_peers)
    /\ SenderUnchanged
    /\ UNCHANGED << tasks, enable_artifact_push, advert, artifact_in_pool, body,
                    completed_transmissions, join_result, transport, pushed,
                    delivered_at >>

\* The tick branch is over: the task suspends in select! again.
BroadcastTickDone(t) ==
    /\ tasks[t].pc = "tick"
    /\ tick_peers = << >>
    /\ tasks' = [tasks EXCEPT ![t].pc = "select"]
    /\ SenderUnchanged
    /\ UNCHANGED broadcast_vars

\* select!: in_progress_transmissions.join_next() yields Ok((connection_id, peer)).
BroadcastJoinNext(t) ==
    /\ tasks[t].pc = "select"
    /\ ~tasks[t].aborted
    /\ \E r \in join_ready(in_progress_transmissions) :
           /\ in_progress_transmissions' = in_progress_transmissions \ {r}
           /\ join_result' =
                  << [peer |-> r.peer, connection_id |-> r.result,
                      accepted_at |-> r.accepted_at] >>
    /\ tasks' = [tasks EXCEPT ![t].pc = "join"]
    /\ SenderUnchanged
    /\ UNCHANGED << enable_artifact_push, advert, artifact_in_pool, body,
                    completed_transmissions, tick_peers, transport, pushed,
                    delivered_at >>

\* The Ok branch of join_next: the delivery is recorded, back to select!.
BroadcastJoinDone(t) ==
    /\ tasks[t].pc = "join"
    /\ completed_transmissions' = record_delivery(completed_transmissions, join_result[1])
    /\ delivered_at' =
           IF completed_transmissions' = completed_transmissions
           THEN delivered_at
           ELSE insert(delivered_at, join_result[1].peer, join_result[1].accepted_at)
    /\ join_result' = << >>
    /\ tasks' = [tasks EXCEPT ![t].pc = "select"]
    /\ SenderUnchanged
    /\ UNCHANGED << enable_artifact_push, advert, artifact_in_pool, body,
                    in_progress_transmissions, tick_peers, transport, pushed >>

\* The runtime drops an aborted task found at a suspension point, and with it
\* its JoinMap.
BroadcastDrop(t) ==
    /\ tasks[t].pc \in {"start", "select"}
    /\ tasks[t].aborted
    /\ tasks' = [tasks EXCEPT ![t].pc = "cancelled"]
    /\ in_progress_transmissions' = join_map_drop(in_progress_transmissions)
    /\ SenderUnchanged
    /\ UNCHANGED << enable_artifact_push, advert, artifact_in_pool, body,
                    completed_transmissions, tick_peers, join_result, transport,
                    pushed, delivered_at >>

\* What a step of a Peer Transmitter or of the transport leaves alone.
TaskUnchanged ==
    /\ SenderUnchanged
    /\ UNCHANGED << tasks, enable_artifact_push, advert, artifact_in_pool, body,
                    completed_transmissions, tick_peers, join_result, delivered_at >>

\* send_advert_to_peer: transport.push(&peer, request) returns Ok(()).
TransmitterPushOk(r) ==
    /\ r.pc = "pushing"
    /\ transport[r.peer].state = "ok"
    /\ in_progress_transmissions' =
           (in_progress_transmissions \ {r})
               \cup {push_accepted(r, transport[r.peer].conn)}
    /\ pushed' = pushed \cup {r.message}
    /\ TaskUnchanged
    /\ UNCHANGED transport

\* send_advert_to_peer: transport.push(&peer, request) returns an error.
TransmitterPushFail(r) ==
    /\ r.pc = "pushing"
    /\ transport[r.peer].state # "ok"
    /\ in_progress_transmissions' =
           (in_progress_transmissions \ {r}) \cup {push_failed(r)}
    /\ pushed' = pushed \cup {r.message}
    /\ TaskUnchanged
    /\ UNCHANGED transport

\* send_advert_to_peer: the sleep is over, the loop pushes again.
TransmitterRetry(r) ==
    /\ r.pc = "sleeping"
    /\ in_progress_transmissions' =
           (in_progress_transmissions \ {r})
               \cup {[r EXCEPT !.pc = "pushing", !.sleep = "none"]}
    /\ TaskUnchanged
    /\ UNCHANGED << transport, pushed >>

\* The transport: a peer reconnects and gets the next connection identifier.
PeerReconnect(peer) ==
    /\ transport[peer].conn < MaxConn
    /\ transport' = [transport EXCEPT ![peer] = [state |-> "ok", conn |-> @.conn + 1]]
    /\ TaskUnchanged
    /\ UNCHANGED << in_progress_transmissions, pushed >>

\* The transport: a peer leaves or rejoins the peer set, or starts or stops
\* accepting pushes, on the connection identifier it has.
PeerChange(peer, state) ==
    /\ transport[peer].state # state
    /\ transport' = [transport EXCEPT ![peer].state = state]
    /\ TaskUnchanged
    /\ UNCHANGED << in_progress_transmissions, pushed >>

\* The event loop takes another event while the task runs: a duplicate
\* Advert of the task's artifact.
SenderDuplicateAdvert ==
    /\ advert.id \in DOMAIN active_adverts
    /\ RecvAdvert(advert.id)

\* The event loop takes Purge of the task's artifact.
SenderPurge ==
    /\ advert.id \in DOMAIN active_adverts
    /\ RecvPurge(advert.id)

BroadcastNext ==
    \/ \E t \in DOMAIN tasks : BroadcastStart(t)
    \/ \E t \in DOMAIN tasks : BroadcastTick(t)
    \/ \E t \in DOMAIN tasks : BroadcastTickPeer(t)
    \/ \E t \in DOMAIN tasks : BroadcastTickDone(t)
    \/ \E t \in DOMAIN tasks : BroadcastJoinNext(t)
    \/ \E t \in DOMAIN tasks : BroadcastJoinDone(t)
    \/ \E t \in DOMAIN tasks : BroadcastDrop(t)
    \/ \E r \in in_progress_transmissions : TransmitterPushOk(r)
    \/ \E r \in in_progress_transmissions : TransmitterPushFail(r)
    \/ \E r \in in_progress_transmissions : TransmitterRetry(r)
    \/ \E peer \in Peers : PeerReconnect(peer)
    \/ \E peer \in Peers : \E state \in {"absent", "unreachable", "ok"} :
           PeerChange(peer, state)
    \/ SenderDuplicateAdvert
    \/ SenderPurge

BroadcastSpec == BroadcastInit /\ [][BroadcastNext]_vars

\* The scheduling the runtime gives: every spawned task that can run is
\* polled; select! picks among its ready branches at random, so neither the
\* timer branch nor the join_next branch is passed over forever.
BroadcastFairness ==
    /\ WF_vars(\E t \in DOMAIN tasks : BroadcastStart(t))
    /\ SF_vars(\E t \in DOMAIN tasks : BroadcastTick(t))
    /\ WF_vars(\E t \in DOMAIN tasks : BroadcastTickPeer(t))
    /\ WF_vars(\E t \in DOMAIN tasks : BroadcastTickDone(t))
    /\ SF_vars(\E t \in DOMAIN tasks : BroadcastJoinNext(t))
    /\ WF_vars(\E t \in DOMAIN tasks : BroadcastJoinDone(t))
    /\ WF_vars(\E t \in DOMAIN tasks : BroadcastDrop(t))
    /\ WF_vars(\E r \in in_progress_transmissions : TransmitterPushOk(r))
    /\ WF_vars(\E r \in in_progress_transmissions : TransmitterPushFail(r))
    /\ WF_vars(\E r \in in_progress_transmissions : TransmitterRetry(r))

FairBroadcastSpec == BroadcastSpec /\ BroadcastFairness

\* Payload selection alone: a task as spawned, for either value of the push
\* switch (the build has ENABLE_ARTIFACT_PUSH), any declared size around the
\* threshold, and the artifact in storage or evicted.
PayloadInit ==
    /\ SenderAfterFirstAdvert
    /\ SystemIdle
    /\ enable_artifact_push \in {ENABLE_ARTIFACT_PUSH, ~ENABLE_ARTIFACT_PUSH}
    /\ advert \in [id : {"a"}, size : AdvertSizes]
    /\ artifact_in_pool \in BOOLEAN
    /\ body = << >>
    /\ completed_transmissions = << >>
    /\ in_progress_transmissions = {}
    /\ tick_peers = << >>
    /\ join_result = << >>
    /\ transport = [x \in Peers |-> [state |-> "ok", conn |-> 1]]
    /\ pushed = {}
    /\ delivered_at = << >>

PayloadNext == \E t \in DOMAIN tasks : BroadcastStart(t)

PayloadSpec == PayloadInit /\ [][PayloadNext]_vars

(***************************************************************************)
(* Properties                                                              *)
(***************************************************************************)

\* Events handled so far, replayed startup adverts included.
Handled == startup_adverts + stream_events

\* The step handles an Advert for an identity that is not in active_adverts.
NewAdvertStep ==
    /\ Handled' = Handled + 1
    /\ last_event'.kind = "Advert"
    /\ ~last_event'.active

\* The step handles an Advert for an identity that is in active_adverts.
DupAdvertStep ==
    /\ Handled' = Handled + 1
    /\ last_event'.kind = "Advert"
    /\ last_event'.active

\* The step handles a Purge for an identity that is in active_adverts.
ActivePurgeStep ==
    /\ Handled' = Handled + 1
    /\ last_event'.kind = "Purge"
    /\ last_event'.active

\* The step handles a Purge for an identity that is not in active_adverts.
AbsentPurgeStep ==
    /\ Handled' = Handled + 1
    /\ last_event'.kind = "Purge"
    /\ ~last_event'.active

\* How often slot occurs in the free pool.
FreeCount(sm, slot) == Cardinality({i \in DOMAIN sm.free_slots : sm.free_slots[i] = slot})

\* The Broadcast Tasks spawned for id that can still take steps.
ActiveTasks(id) == {t \in DOMAIN tasks : tasks[t].id = id /\ TaskActive(t)}

\* The Broadcast Tasks spawned for id whose abort has not been requested.
UnabortedTasks(id) == {t \in DOMAIN tasks : tasks[t].id = id /\ ~tasks[t].aborted}

\* C1 as stated: at any moment at most one Broadcast Task that can still take
\* steps exists for any one artifact identity, also when Purge(id) is followed
\* by a new Advert(id) before the aborted task reached a suspension point.
C1_AtMostOneActiveTask == \A id \in Ids : Cardinality(ActiveTasks(id)) <= 1

\* C1 amended: at any moment at most one Broadcast Task whose abort has not
\* been requested exists for any one artifact identity, and it is the task
\* recorded for that identity in active_adverts; identities outside the map
\* have none.
C1_AtMostOneUnabortedTask ==
    \A id \in Ids :
        UnabortedTasks(id) =
            IF id \in DOMAIN active_adverts THEN {active_adverts[id].task} ELSE {}

\* C1 witness: Purge(id) then Advert(id) were handled while the aborted task
\* was still inside its tick branch, so the old and the new task both run.
C1_Witness ==
    \E t1, t2 \in DOMAIN tasks :
        /\ t1 < t2
        /\ tasks[t1].id = tasks[t2].id
        /\ tasks[t1].aborted
        /\ tasks[t1].pc = "tick"
        /\ ~tasks[t2].aborted
        /\ tasks[t2].pc # "start"
        /\ tasks[t2].id \in DOMAIN active_adverts

\* C2: no two distinct identities of active_adverts hold the same slot, and
\* no slot held by a record of active_adverts is in the free pool.
C2_SlotExclusivity ==
    /\ \A i, j \in DOMAIN active_adverts :
           i # j => active_adverts[i].slot # active_adverts[j].slot
    /\ \A i \in DOMAIN active_adverts :
           active_adverts[i].slot \notin Range(slot_manager.free_slots)

\* C2 witness: two identities are active on distinct slots while the slot of
\* a purged identity waits in the free pool.
C2_Witness ==
    /\ Cardinality(DOMAIN active_adverts) >= 2
    /\ slot_manager.free_slots # << >>
    /\ \E t \in DOMAIN tasks :
           /\ tasks[t].aborted
           /\ tasks[t].slot_number \in Range(slot_manager.free_slots)

\* C3: every record of active_adverts reserves one slot (out of the free pool,
\* held by no other record), and handling Purge(id) for an active id appends
\* exactly that record's slot to the free pool, once, and touches the slot of
\* no other record.
C3_PurgeFreesItsSlotOnce ==
    /\ [](\A i \in DOMAIN active_adverts :
              /\ FreeCount(slot_manager, active_adverts[i].slot) = 0
              /\ \A j \in DOMAIN active_adverts :
                     active_adverts[j].slot = active_adverts[i].slot => j = i)
    /\ [][ActivePurgeStep =>
              LET id == last_event'.id
                  slot == active_adverts[id].slot
              IN  /\ slot_manager'.free_slots = Append(slot_manager.free_slots, slot)
                  /\ FreeCount(slot_manager', slot) = 1
                  /\ slot_manager'.next_free_slot = slot_manager.next_free_slot
                  /\ DOMAIN active_adverts' = DOMAIN active_adverts \ {id}
                  /\ \A i \in DOMAIN active_adverts' :
                         active_adverts'[i] = active_adverts[i]]_vars

\* C3 witness: an active identity was purged between adverts of other
\* identities, which stay active.
C3_Witness ==
    /\ last_event.kind = "Purge"
    /\ last_event.active
    /\ Cardinality(DOMAIN active_adverts) >= 2
    /\ \E t \in DOMAIN tasks :
           /\ tasks[t].id = last_event.id
           /\ tasks[t].aborted
           /\ Last(slot_manager.free_slots) = tasks[t].slot_number
           /\ \E u \in DOMAIN tasks : u > t /\ ~tasks[u].aborted

\* C4: take_free_slot returns the most recently freed slot whenever the free
\* pool is non-empty and leaves next_free_slot alone; only with an empty pool
\* it returns next_free_slot and increments it. While no task was aborted (no
\* give_slot call was made), the n-th call returned n - 1.
C4_SlotReuse ==
    /\ []((\A t \in DOMAIN tasks : ~tasks[t].aborted) =>
              \A t \in DOMAIN tasks : tasks[t].slot_number = t - 1)
    /\ [][NewAdvertStep =>
              /\ Len(tasks') = Len(tasks) + 1
              /\ LET slot == Last(tasks').slot_number
                     free == slot_manager.free_slots
                 IN  IF free # << >>
                     THEN /\ slot = Last(free)
                          /\ slot_manager'.free_slots = Front(free)
                          /\ slot_manager'.next_free_slot = slot_manager.next_free_slot
                     ELSE /\ slot = slot_manager.next_free_slot
                          /\ slot_manager'.free_slots = << >>
                          /\ slot_manager'.next_free_slot =
                                 slot_manager.next_free_slot + 1]_vars

\* C4 witness: three calls returned 0, 1, 2, then give_slot(1) was followed by
\* a call that returned 1.
C4_Witness ==
    /\ Len(tasks) = 4
    /\ \A t \in 1..3 : tasks[t].slot_number = t - 1
    /\ tasks[2].aborted
    /\ ~tasks[1].aborted
    /\ ~tasks[3].aborted
    /\ tasks[4].slot_number = 1
    /\ slot_manager.next_free_slot = 3

\* C5: the commit id is 0 at creation, every event taken from the event
\* stream increases it by exactly 1 whatever the event meets, and no other
\* step changes it.
C5_CommitIdCountsStreamEvents ==
    /\ current_commit_id = 0
    /\ [][current_commit_id' =
              IF stream_events' = stream_events + 1
              THEN current_commit_id + 1
              ELSE current_commit_id]_vars

\* C5 witness: with an empty validated pool, three Adverts and one Purge of an
\* active identity were taken from the stream and the commit id is 4.
C5_Witness ==
    /\ startup_adverts = 0
    /\ loop_pc = "recv"
    /\ stream_events = 4
    /\ metrics.send_view_consensus_new_adverts_total
           + metrics.send_view_consensus_dup_adverts_total = 3
    /\ metrics.send_view_consensus_purge_active_total = 1
    /\ current_commit_id = 4

\* C6 as stated: after the startup replay of k artifacts and before the first
\* stream event is handled, the commit id equals k.
C6_ReplayIncrementsCommitId ==
    (loop_pc = "recv" /\ stream_events = 0) => current_commit_id = startup_adverts

\* C7 as stated: of two Broadcast Tasks spawned by different events (replayed
\* startup adverts included), the one spawned later carries a strictly greater
\* commit id.
C7_CommitIdStrictlyOrdersTasks ==
    \A t1, t2 \in DOMAIN tasks :
        t1 < t2 => tasks[t1].commit_id < tasks[t2].commit_id

\* C8: active_adverts contains exactly the identities whose most recent event
\* (stream or startup replay) was an Advert.
C8_MapIsLatestAdverts ==
    DOMAIN active_adverts = {i \in Ids : last_kind[i] = "Advert"}

\* C8 witness: three Adverts for distinct identities, then a Purge of the
\* first, leave exactly 2 entries.
C8_Witness ==
    /\ stream_events = 4
    /\ Len(tasks) = 3
    /\ \A t, u \in DOMAIN tasks : t # u => tasks[t].id # tasks[u].id
    /\ last_event.kind = "Purge"
    /\ last_event.id = tasks[1].id
    /\ tasks[1].aborted
    /\ Cardinality(DOMAIN active_adverts) = 2

\* C9: handling Advert(item) for an identity already in active_adverts leaves
\* the map with its task handles and slots, the free pool and next_free_slot
\* unchanged and spawns no task; of the counters only the duplicate-advert
\* counter changes.
C9_DuplicateAdvertIsNoOp ==
    [][DupAdvertStep =>
          /\ active_adverts' = active_adverts
          /\ slot_manager' = slot_manager
          /\ tasks' = tasks
          /\ metrics' =
                 [metrics EXCEPT !.send_view_consensus_dup_adverts_total = @ + 1]]_vars

\* C9 witness: a duplicate Advert was just handled for an identity whose task
\* is running, while the free pool holds a slot.
C9_Witness ==
    /\ last_event.kind = "Advert"
    /\ last_event.active
    /\ last_event.id \in DOMAIN active_adverts
    /\ tasks[active_adverts[last_event.id].task].pc = "tick"
    /\ slot_manager.free_slots # << >>

\* C10: handling Purge(id) for an identity not in active_adverts leaves the
\* map, the free pool and next_free_slot unchanged and aborts no task; no slot
\* is ever in the free pool twice.
C10_AbsentPurgeIsNoOp ==
    /\ [](\A i \in DOMAIN slot_manager.free_slots :
              FreeCount(slot_manager, slot_manager.free_slots[i]) = 1)
    /\ [][AbsentPurgeStep =>
              /\ active_adverts' = active_adverts
              /\ slot_manager' = slot_manager
              /\ tasks' = tasks
              /\ metrics' =
                     [metrics EXCEPT !.send_view_consensus_dup_purge_total = @ + 1]]_vars

\* C10 witness: an identity that was active and purged was purged a second
\* time, and its slot is in the free pool once.
C10_Witness ==
    /\ last_event.kind = "Purge"
    /\ ~last_event.active
    /\ metrics.send_view_consensus_dup_purge_total >= 1
    /\ \E t \in DOMAIN tasks :
           /\ tasks[t].id = last_event.id
           /\ tasks[t].aborted
           /\ FreeCount(slot_manager, tasks[t].slot_number) = 1

\* The event loop has handled Purge of the task's artifact.
Purged == last_kind[advert.id] = "Purge"

\* The Peer Transmitters a step adds to the JoinMap under a key that was free.
NewTransmitters ==
    {r \in in_progress_transmissions' :
        \A r0 \in in_progress_transmissions : r0.key # r.key}

\* Neither the Broadcast Task nor any of its Peer Transmitters can take a step.
Quiescent ==
    /\ \A t \in DOMAIN tasks : tasks[t].pc = "cancelled"
    /\ \A r \in in_progress_transmissions : r.pc = "cancelled"

TickPeerStep(peer, connection_id) ==
    /\ tick_peers # << >>
    /\ tick_peers' = Tail(tick_peers)
    /\ Head(tick_peers) = << peer, connection_id >>

\* C12 as stated: at a reconciliation tick, a peer reported with a connection
\* identifier different from the one recorded for its last successful delivery
\* gets a Peer Transmitter with the new connection identifier.
C12_FreshnessAlways ==
    [][\A peer \in Peers : \A c \in 1..MaxConn :
          (/\ TickPeerStep(peer, c)
           /\ peer \in DOMAIN completed_transmissions
           /\ completed_transmissions[peer] # c) =>
              \E r \in in_progress_transmissions' :
                  r.peer = peer /\ r.connection_id = c /\ Live(r)]_vars

\* C12 amended: the same, provided no transmission for that peer is in the
\* JoinMap at that tick; if one is, the tick leaves it as it is.
C12_FreshnessUnlessInFlight ==
    [][\A peer \in Peers : \A c \in 1..MaxConn :
          (/\ TickPeerStep(peer, c)
           /\ peer \in DOMAIN completed_transmissions
           /\ completed_transmissions[peer] # c) =>
              IF \E r \in in_progress_transmissions : r.peer = peer
              THEN in_progress_transmissions' = in_progress_transmissions
              ELSE \E r \in NewTransmitters :
                       /\ r.peer = peer
                       /\ r.connection_id = c
                       /\ r.pc = "pushing"]_vars

\* C12 witness: a delivery on an older connection is recorded for a peer and
\* a transmitter with the peer's current, newer connection identifier runs.
C12_Witness ==
    \E peer \in Peers : \E r \in in_progress_transmissions :
        /\ peer \in DOMAIN completed_transmissions
        /\ r.peer = peer
        /\ Live(r)
        /\ r.connection_id = transport[peer].conn
        /\ completed_transmissions[peer] < r.connection_id
        /\ delivered_at[peer] = completed_transmissions[peer]

\* C13: if from some point on a peer stays connected, accepting pushes, with
\* its connection identifier fixed at c, a Broadcast Task that is never
\* aborted eventually records c for that peer.
C13_EventualDelivery ==
    \A peer \in Peers : \A c \in 1..MaxConn :
        (/\ <>[](transport[peer] = [state |-> "ok", conn |-> c])
         /\ [](\A t \in DOMAIN tasks : ~tasks[t].aborted)) =>
            <>(/\ peer \in DOMAIN completed_transmissions
               /\ completed_transmissions[peer] = c)

\* C13 witness: the delivery to a reachable peer is recorded at its current
\* connection identifier by a transmitter that had to retry.
C13_Witness ==
    \E peer \in Peers :
        /\ transport[peer].state = "ok"
        /\ peer \in DOMAIN completed_transmissions
        /\ completed_transmissions[peer] = transport[peer].conn
        /\ delivered_at[peer] = transport[peer].conn
        /\ transport[peer].conn > 1
        /\ \A t \in DOMAIN tasks : ~tasks[t].aborted

\* The transmissions of peer that are in the JoinMap.
InFlight(peer) == {r \in in_progress_transmissions : r.peer = peer}

\* C14: a Peer Transmitter returns only from a push the transport accepted,
\* and then returns the connection identifier it was started with; after a
\* failed push it sleeps and pushes again, also when its backoff schedule is
\* exhausted; it never ends in any other way than by being cancelled.
C14_TransmitterContract ==
    /\ [](\A r \in in_progress_transmissions :
              r.pc = "done" => r.result = r.connection_id /\ r.accepted_at # 0)
    /\ [][\A r \in in_progress_transmissions :
              Live(r) =>
                  \E r2 \in in_progress_transmissions' :
                      /\ r2.key = r.key
                      /\ r2.connection_id = r.connection_id
                      /\ r2.message = r.message
                      /\ \/ r2 = r
                         \/ /\ r.pc = "pushing" /\ r2.pc = "done"
                            /\ transport[r.peer].state = "ok"
                            /\ r2.result = r.connection_id
                         \/ /\ r.pc = "pushing" /\ r2.pc = "sleeping"
                            /\ transport[r.peer].state # "ok"
                            /\ r2.sleep =
                                   IF r.backoff < BackoffSteps
                                   THEN "next_backoff"
                                   ELSE "MAX_ELAPSED_TIME"
                         \/ r.pc = "sleeping" /\ r2.pc = "pushing"
                         \/ r2.pc = "cancelled" /\ Quiescent']_vars

\* C14 witness: a transmitter whose backoff schedule ran out has returned,
\* with the identifier it was started with, after the peer had reconnected.
C14_Witness ==
    \E r \in in_progress_transmissions :
        /\ r.pc = "done"
        /\ r.backoff = BackoffSteps
        /\ r.result = r.connection_id
        /\ r.connection_id < r.accepted_at

C16_OneLiveTransmitterPerPeer ==
    \A peer \in Peers : Cardinality({r \in InFlight(peer) : Live(r)}) <= 1

\* C16 witness: a tick has run over the peers while a transmitter started on
\* an older connection of a present peer is still retrying.
C16_Witness ==
    \E t \in DOMAIN tasks : \E r \in in_progress_transmissions :
        /\ tasks[t].pc = "tick"
        /\ tick_peers = << >>
        /\ transport[r.peer].state # "absent"
        /\ r.pc = "sleeping"
        /\ r.connection_id < transport[r.peer].conn

\* C17: every push made for a Broadcast Task carries one and the same
\* message: the slot number and the commit id the task was spawned with and
\* the payload selected at its start, whatever the sender's commit id is now.
C17_OneImmutableMessage ==
    /\ Cardinality(pushed) <= 1
    /\ \A t \in DOMAIN tasks :
           \A m \in pushed \cup {r.message : r \in in_progress_transmissions} :
               /\ m.slot_number = tasks[t].slot_number
               /\ m.commit_id = tasks[t].commit_id
               /\ m.data = select_data(enable_artifact_push, advert, artifact_in_pool)
               /\ m = body[1]

\* C17 witness: the sender's commit id has moved on, and the message was
\* pushed again after a failure on a later connection of the peer.
C17_Witness ==
    \E t \in DOMAIN tasks : \E r \in in_progress_transmissions :
        /\ pushed # {}
        /\ current_commit_id > tasks[t].commit_id + 1
        /\ r.backoff > 0
        /\ r.pc = "done"
        /\ r.connection_id > 1

\* C18: in the tick loop a Peer Transmitter is spawned for the peer at hand
\* iff the peer is not up to date and no transmission for it is in the
\* JoinMap; the transmissions that are there are left exactly as they are.
C18_SpawnCondition ==
    [][\A peer \in Peers : \A c \in 1..MaxConn :
          TickPeerStep(peer, c) =>
              /\ in_progress_transmissions \subseteq in_progress_transmissions'
              /\ (\E r \in NewTransmitters : r.peer = peer) <=>
                     /\ \/ peer \notin DOMAIN completed_transmissions
                        \/ completed_transmissions[peer] # c
                     /\ InFlight(peer) = {}
              /\ \A r \in NewTransmitters :
                     r.peer = peer /\ r.connection_id = c /\ r.pc = "pushing"]_vars

\* C18 witness: a tick has passed over a peer that is not up to date and has
\* a transmission in flight on an older connection; a delivery is on record.
C18_Witness ==
    \E t \in DOMAIN tasks : \E peer \in Peers :
        /\ tasks[t].pc = "tick"
        /\ tick_peers = << >>
        /\ transport[peer].state = "ok"
        /\ peer \in DOMAIN completed_transmissions
        /\ completed_transmissions[peer] # transport[peer].conn
        /\ \E r \in InFlight(peer) : r.connection_id # transport[peer].conn

\* C19: in the tick loop nothing is spawned for a peer whose recorded
\* connection identifier is the reported one; and no step at all adds a
\* transmission for a peer whose recorded identifier is its current one.
C19_UpToDatePeersLeftAlone ==
    [][\A peer \in Peers :
          /\ \A c \in 1..MaxConn :
                 (/\ TickPeerStep(peer, c)
                  /\ peer \in DOMAIN completed_transmissions
                  /\ completed_transmissions[peer] = c) =>
                     in_progress_transmissions' = in_progress_transmissions
          /\ (/\ peer \in DOMAIN completed_transmissions
              /\ completed_transmissions[peer] = transport[peer].conn) =>
                 \A r \in NewTransmitters : r.peer # peer]_vars

\* C19 witness: a tick has passed over a reachable peer whose delivery is
\* recorded at its current connection identifier; nothing is in flight.
C19_Witness ==
    \E t \in DOMAIN tasks : \E peer \in Peers :
        /\ tasks[t].pc = "tick"
        /\ tick_peers = << >>
        /\ transport[peer].state = "ok"
        /\ peer \in DOMAIN completed_transmissions
        /\ completed_transmissions[peer] = transport[peer].conn
        /\ InFlight(peer) = {}

TransmitterPanic(r) ==
    /\ r.pc = "pushing"
    /\ in_progress_transmissions' =
           (in_progress_transmissions \ {r}) \cup {[r EXCEPT !.pc = "panicked"]}
    /\ TaskUnchanged
    /\ UNCHANGED << transport, pushed >>

\* The runtime cancels a Peer Transmitter on its own (it is shutting down)
\* while the Broadcast Task is still there to see the JoinError.
TransmitterCancel(r) ==
    /\ Live(r)
    /\ in_progress_transmissions' =
           (in_progress_transmissions \ {r}) \cup {[r EXCEPT !.pc = "cancelled"]}
    /\ TaskUnchanged
    /\ UNCHANGED << transport, pushed >>

\* JoinMap::join_next: the transmissions it hands out as Err(JoinError).
join_failed(map) == {r \in map : r.pc \in {"cancelled", "panicked"}}

\* Mutant of join_error: a panic is ignored like a cancellation.
join_error_swallow(r) == "select"

\* send_advert_to_all_peers, Err(err) branch: where the task goes on.
\* `if err.is_panic() { std::panic::resume_unwind(err.into_panic()); }`
join_error(r) == IF r.pc = "panicked" THEN "panicked" ELSE "select"

\* select!: in_progress_transmissions.join_next() yields Err(err). A task that
\* re-raises the panic unwinds, and its JoinMap is dropped.
BroadcastJoinErr(t) ==
    /\ tasks[t].pc = "select"
    /\ ~tasks[t].aborted
    /\ \E r \in join_failed(in_progress_transmissions) :
           /\ tasks' = [tasks EXCEPT ![t].pc = join_error(r)]
           /\ in_progress_transmissions' =
                  IF join_error(r) = "panicked"
                  THEN join_map_drop(in_progress_transmissions \ {r})
                  ELSE in_progress_transmissions \ {r}
    /\ SenderUnchanged
    /\ UNCHANGED << enable_artifact_push, advert, artifact_in_pool, body,
                    completed_transmissions, tick_peers, join_result, transport,
                    pushed, delivered_at >>

FailureNext ==
    \/ BroadcastNext
    \/ \E r \in in_progress_transmissions : TransmitterPanic(r)
    \/ \E r \in in_progress_transmissions : TransmitterCancel(r)
    \/ \E t \in DOMAIN tasks : BroadcastJoinErr(t)

FailureSpec == BroadcastInit /\ [][FailureNext]_vars

\* C21: an entry {peer -> c} enters the delivery state only from the result
\* of a Peer Transmitter for that peer that was spawned with c and returned
\* after an accepted push; no other step adds, changes or removes an entry.
C21_DeliveryStateOnlyOnSuccess ==
    [][/\ completed_transmissions' # completed_transmissions =>
              /\ join_result # << >>
              /\ join_result[1].accepted_at # 0
              /\ completed_transmissions' =
                     insert(completed_transmissions, join_result[1].peer,
                            join_result[1].connection_id)
       /\ (join_result' # << >> /\ join_result' # join_result) =>
              \E r \in in_progress_transmissions :
                  /\ r.pc = "done"
                  /\ r.accepted_at # 0
                  /\ r.peer = join_result'[1].peer
                  /\ r.connection_id = join_result'[1].connection_id
                  /\ r \notin in_progress_transmissions']_vars

\* C21 witness: the entry of a peer stands as recorded while a later
\* transmission to it, after a failed push, sits cancelled in the JoinMap of
\* the running task.
C21_Witness ==
    \E t \in DOMAIN tasks : \E peer \in DOMAIN completed_transmissions :
        /\ tasks[t].pc = "select"
        /\ ~tasks[t].aborted
        /\ delivered_at[peer] = completed_transmissions[peer]
        /\ \E r \in InFlight(peer) :
               /\ r.pc = "cancelled"
               /\ r.backoff > 0
               /\ r.connection_id > completed_transmissions[peer]

\* The failed transmissions a step takes out of the JoinMap.
JoinedFailures ==
    {r \in join_failed(in_progress_transmissions) :
        r \notin in_progress_transmissions'}

\* C22: when join_next hands a running task a cancelled transmission, the
\* task goes on in select! with its delivery state unchanged; when it hands
\* it a panicked one, the task re-raises the panic and takes no step after.
C22_TransmitterFailureHandling ==
    [][\A t \in DOMAIN tasks :
          /\ (tasks[t].pc = "select" /\ ~tasks[t].aborted /\ JoinedFailures # {}) =>
                 IF \E r \in JoinedFailures : r.pc = "panicked"
                 THEN tasks'[t].pc = "panicked"
                 ELSE /\ tasks'[t].pc = "select"
                      /\ completed_transmissions' = completed_transmissions
          /\ tasks[t].pc = "panicked" =>
                 /\ tasks'[t].pc = "panicked"
                 /\ completed_transmissions' = completed_transmissions
                 /\ in_progress_transmissions' = in_progress_transmissions
                 /\ pushed' = pushed
                 /\ \A r \in in_progress_transmissions : r.pc = "cancelled"]_vars

\* C22 witness: a task that had recorded a delivery has stopped on the panic
\* of a later transmission.
C22_Witness ==
    \E t \in DOMAIN tasks :
        /\ tasks[t].pc = "panicked"
        /\ ~tasks[t].aborted
        /\ completed_transmissions # << >>

\* C23: once a Broadcast Task has panicked, the event loop handles no
\* further Advert or Purge event.
C23_TaskPanicStopsEventLoop ==
    [][(\E t \in DOMAIN tasks : tasks[t].pc = "panicked") =>
           /\ stream_events' = stream_events
           /\ active_adverts' = active_adverts
           /\ slot_manager' = slot_manager]_vars

(***************************************************************************)
(* The startup replay of a pool with several artifacts                     *)
(***************************************************************************)

\* Largest number of artifacts in the validated pool, for the replay alone.
MaxReplay == 3

\* Events taken from the stream after the replay.
MaxReplayEvents == 1

ReplaySnapshots ==
    {s \in UNION {[1..n -> Ids] : n \in 0..MaxReplay} :
        \A i, j \in DOMAIN s : i # j => s[i] # s[j]}

\* ConsensusManagerSender::run, with a pool of up to MaxReplay artifacts.
ReplayInit ==
    /\ BroadcastIdle
    /\ SystemIdle
    /\ loop_pc = "replay"
    /\ artifacts_in_validated_pool \in ReplaySnapshots
    /\ current_commit_id = 0
    /\ active_adverts = << >>
    /\ slot_manager = SlotManagerNew
    /\ metrics = MetricsNew
    /\ tasks = << >>
    /\ startup_adverts = 0
    /\ stream_events = 0
    /\ last_event = [kind |-> "none", id |-> "none", source |-> "none", active |-> FALSE]
    /\ last_kind = [i \in Ids |-> "none"]

ReplayNext ==
    \/ ReplayAdvert
    \/ ReplayDone
    \/ \E id \in Ids : stream_events < MaxReplayEvents /\ RecvAdvert(id)
    \/ \E id \in Ids : stream_events < MaxReplayEvents /\ RecvPurge(id)
    \/ \E t \in DOMAIN tasks : TaskStart(t)
    \/ \E t \in DOMAIN tasks : TaskTick(t)
    \/ \E t \in DOMAIN tasks : TaskTickDone(t)
    \/ \E t \in DOMAIN tasks : TaskDrop(t)

ReplaySpec == ReplayInit /\ [][ReplayNext]_vars

\* The identities of the Broadcast Tasks, in spawn order.
TaskIds == [i \in DOMAIN tasks |-> tasks[i].id]

\* C24: the replay handles the artifacts of the snapshot one by one in the
\* snapshot's order (the spawned tasks followed by the artifacts still to
\* handle always spell the snapshot), no stream event is taken before the
\* snapshot is used up, and the i-th replayed artifact gets slot i-1 and a
\* Broadcast Task of its own.
C24_StartupReplayOrdering ==
    /\ [][loop_pc = "replay" =>
              /\ TaskIds' \o artifacts_in_validated_pool' =
                     TaskIds \o artifacts_in_validated_pool
              /\ stream_events' = stream_events]_vars
    /\ []((loop_pc # "replay" \/ stream_events > 0) =>
              artifacts_in_validated_pool = << >>)
    /\ [](/\ startup_adverts <= Len(tasks)
          /\ \A i \in 1..startup_adverts :
                 /\ tasks[i].slot_number = i - 1
                 /\ ~tasks[i].aborted =>
                        /\ tasks[i].id \in DOMAIN active_adverts
                        /\ active_adverts[tasks[i].id] = [task |-> i, slot |-> i - 1])

\* C24 witness: three artifacts were replayed, the third got slot 2, and
\* the first stream event has been handled after them.
C24_Witness ==
    /\ startup_adverts = 3
    /\ Len(tasks) >= 3
    /\ tasks[3].slot_number = 2
    /\ tasks[1].pc = "select"
    /\ stream_events = 1

(***************************************************************************)
(* The event loop with the producer side of its channel                    *)
(***************************************************************************)

\* Largest number of events the producer sends.
MaxSent == 3

\* Mutant of recv: a closed channel yields None although events are queued.
recv_closed_first(ch) ==
    IF ch.closed
    THEN [kind |-> "None", event |-> [kind |-> "none", id |-> "none"]]
    ELSE IF ch.queue # << >>
         THEN [kind |-> "Some", event |-> Head(ch.queue)]
         ELSE [kind |-> "Pending", event |-> [kind |-> "none", id |-> "none"]]

\* `self.adverts_to_send.recv().await`: the oldest queued event; None once
\* every sender is gone and the queue is empty; otherwise the loop waits.
recv(ch) ==
    IF ch.queue # << >>
    THEN [kind |-> "Some", event |-> Head(ch.queue)]
    ELSE IF ch.closed
         THEN [kind |-> "None", event |-> [kind |-> "none", id |-> "none"]]
         ELSE [kind |-> "Pending", event |-> [kind |-> "none", id |-> "none"]]

\* The producer sends an event into the channel.
ProducerSend(kind, id) ==
    /\ ~adverts_to_send.closed
    /\ adverts_to_send.sent < MaxSent
    /\ adverts_to_send' =
           [adverts_to_send EXCEPT !.queue = Append(@, [kind |-> kind, id |-> id]),
                                   !.sent = @ + 1]
    /\ UNCHANGED << sender_vars, broadcast_vars, task_locals, peak_active_adverts >>

\* The producer shuts down: the last sender of the channel is dropped.
ProducerClose ==
    /\ ~adverts_to_send.closed
    /\ adverts_to_send' = [adverts_to_send EXCEPT !.closed = TRUE]
    /\ UNCHANGED << sender_vars, broadcast_vars, task_locals, peak_active_adverts >>

\* start_event_loop, one iteration of `while let Some(advert) = .. recv().await`.
ChannelRecv ==
    /\ loop_pc = "recv"
    /\ recv(adverts_to_send).kind = "Some"
    /\ LET event == recv(adverts_to_send).event
       IN  /\ IF event.kind = "Advert"
              THEN handle_send_advert(event.id)
              ELSE handle_purge_advert(event.id)
           /\ last_event' = Event(event.kind, event.id, "stream")
           /\ last_kind' = [last_kind EXCEPT ![event.id] = event.kind]
    /\ adverts_to_send' = [adverts_to_send EXCEPT !.queue = Tail(@)]
    /\ current_commit_id' = inc_assign(current_commit_id)
    /\ stream_events' = stream_events + 1
    /\ UNCHANGED << loop_pc, artifacts_in_validated_pool, startup_adverts >>
    /\ UNCHANGED << broadcast_vars, task_locals, peak_active_adverts >>

\* start_event_loop: recv() yields None, the `while let` ends.
ChannelRecvNone ==
    /\ loop_pc = "recv"
    /\ recv(adverts_to_send).kind = "None"
    /\ loop_pc' = "done"
    /\ UNCHANGED << artifacts_in_validated_pool, current_commit_id, active_adverts,
                    slot_manager, metrics, tasks, startup_adverts, stream_events,
                    last_event, last_kind >>
    /\ UNCHANGED << broadcast_vars, system_vars >>

ChannelNext ==
    \/ ReplayAdvert
    \/ ReplayDone
    \/ \E kind \in {"Advert", "Purge"} : \E id \in Ids : ProducerSend(kind, id)
    \/ ProducerClose
    \/ ChannelRecv
    \/ ChannelRecvNone

ChannelSpec == Init /\ [][ChannelNext]_vars

\* The event loop is a spawned task that is polled whenever it can run; the
\* producer is under no obligation.
FairChannelSpec ==
    /\ ChannelSpec
    /\ WF_vars(ReplayAdvert)
    /\ WF_vars(ReplayDone)
    /\ WF_vars(ChannelRecv)
    /\ WF_vars(ChannelRecvNone)

\* C25: the event loop has ended only if the channel is closed and every
\* event sent was handled; once the channel is closed the loop does end; and
\* an ended loop handles nothing more.
C25_EventLoopTermination ==
    /\ [](loop_pc = "done" =>
              /\ adverts_to_send.closed
              /\ adverts_to_send.queue = << >>
              /\ stream_events = adverts_to_send.sent)
    /\ adverts_to_send.closed ~> loop_pc = "done"
    /\ [][loop_pc = "done" => UNCHANGED sender_vars]_vars

\* C25 witness: the loop has ended after the producer closed the channel
\* with events still queued, all of which were handled.
C25_Witness ==
    /\ loop_pc = "done"
    /\ adverts_to_send.closed
    /\ stream_events >= 2
    /\ startup_adverts >= 1

(***************************************************************************)
(* The SlotManager around its warning threshold                            *)
(***************************************************************************)

\* How far below and above SLOT_TABLE_THRESHOLD the high-water mark is taken.
SlotSpan == 3

\* Largest number of slots in the free pool to begin with.
MaxFree == 2

\* The slots that are given back and taken: the two lowest and the highest.
SlotsInPlay(sm) == {0, 1, sm.next_free_slot - 1}

\* A SlotManager after many adverts and purges: a high-water mark around
\* the threshold, distinct issued slots in the free pool, the gauge at the
\* number of slots in use.
SlotInit ==
    /\ BroadcastIdle
    /\ SystemIdle
    /\ \E n \in (SLOT_TABLE_THRESHOLD - SlotSpan)..(SLOT_TABLE_THRESHOLD + SlotSpan) :
       \E free \in UNION {[1..k -> {0, 1, n - 1}] : k \in 0..MaxFree} :
           /\ \A i, j \in DOMAIN free : i # j => free[i] # free[j]
           /\ slot_manager = [next_free_slot |-> n, free_slots |-> free, warnings |-> 0]
           /\ metrics = [MetricsNew EXCEPT !.slot_manager_used_slots = n - Len(free),
                                           !.slot_manager_maximum_slots_total = n]
    /\ loop_pc = "recv"
    /\ artifacts_in_validated_pool = << >>
    /\ current_commit_id = 0
    /\ active_adverts = << >>
    /\ tasks = << >>
    /\ startup_adverts = 0
    /\ stream_events = 0
    /\ last_event = [kind |-> "none", id |-> "none", source |-> "none", active |-> FALSE]
    /\ last_kind = [i \in Ids |-> "none"]

SlotUnchanged ==
    UNCHANGED << loop_pc, artifacts_in_validated_pool, current_commit_id,
                 active_adverts, tasks, startup_adverts, stream_events, last_event,
                 last_kind, broadcast_vars, system_vars >>

\* A call of SlotManager::take_free_slot.
SlotTake ==
    /\ slot_manager.next_free_slot < SLOT_TABLE_THRESHOLD + SlotSpan + 1
    /\ slot_manager' = take_free_slot(slot_manager, metrics).slot_manager
    /\ metrics' = take_free_slot(slot_manager, metrics).metrics
    /\ SlotUnchanged

\* A call of SlotManager::give_slot, with a slot that is in use.
SlotGive(slot) ==
    /\ slot \in 0..(slot_manager.next_free_slot - 1)
    /\ slot \notin Range(slot_manager.free_slots)
    /\ slot_manager' = give_slot(slot_manager, metrics, slot).slot_manager
    /\ metrics' = give_slot(slot_manager, metrics, slot).metrics
    /\ SlotUnchanged

SlotNext ==
    \/ SlotTake
    \/ \E slot \in SlotsInPlay(slot_manager) : SlotGive(slot)

SlotSpec == SlotInit /\ [][SlotNext]_vars

\* The step is a call of take_free_slot.
TakeStep == metrics'.slot_manager_used_slots = metrics.slot_manager_used_slots + 1

\* C26 as stated: every call of take_free_slot made while the high-water
\* mark exceeds 30,000 logs a warning, from whichever source the slot comes.
C26_WarningOnEveryTake ==
    [][(TakeStep /\ slot_manager.next_free_slot > 30000) =>
           slot_manager'.warnings = slot_manager.warnings + 1]_vars

\* C26 amended: a call of take_free_slot logs a warning iff the free pool
\* is empty and the high-water mark exceeds 30,000; a call served from the
\* free pool logs none. In every case the call returns: the slot it hands
\* out was not in use, and the pool stays a set of distinct issued slots.
C26_WarningOnFreshSlotOnly ==
    /\ [][TakeStep =>
              /\ slot_manager'.warnings =
                     IF slot_manager.free_slots = << >>
                        /\ slot_manager.next_free_slot > 30000
                     THEN slot_manager.warnings + 1
                     ELSE slot_manager.warnings
              /\ \/ /\ slot_manager.free_slots # << >>
                    /\ slot_manager'.free_slots = Front(slot_manager.free_slots)
                    /\ slot_manager'.next_free_slot = slot_manager.next_free_slot
                 \/ /\ slot_manager.free_slots = << >>
                    /\ slot_manager'.free_slots = << >>
                    /\ slot_manager'.next_free_slot = slot_manager.next_free_slot + 1]_vars
    /\ [](/\ \A i, j \in DOMAIN slot_manager.free_slots :
                 i # j => slot_manager.free_slots[i] # slot_manager.free_slots[j]
          /\ \A i \in DOMAIN slot_manager.free_slots :
                 slot_manager.free_slots[i] < slot_manager.next_free_slot
          /\ metrics.slot_manager_used_slots =
                 slot_manager.next_free_slot - Len(slot_manager.free_slots))

\* C26 witness: above the threshold, slots were taken both ways: one call
\* logged a warning, and the free pool has been used up by others.
C26_Witness ==
    /\ slot_manager.next_free_slot > 30000 + 1
    /\ slot_manager.warnings = 1
    /\ slot_manager.free_slots = << >>
    /\ metrics.slot_manager_used_slots = slot_manager.next_free_slot

(***************************************************************************)
(* The sender with the Broadcast Tasks it spawns, each with its own locals *)
(***************************************************************************)

\* Identities on the stream, and the number of stream events.
SystemIds == {"a", "b"}

MaxSystemEvents == 3

\* Mutant of TaskLocalsNew: a task for an identity that was broadcast before
\* starts from the delivery state of the earlier task.
TaskLocalsKept(t) ==
    LET earlier == {u \in DOMAIN task_locals : tasks[u].id = tasks[t].id}
    IN  [body |-> advert_update(
                      tasks[t],
                      select_data(enable_artifact_push,
                                  [id |-> tasks[t].id, size |-> ARTIFACT_PUSH_THRESHOLD],
                                  artifact_in_pool)),
         completed_transmissions |->
             IF earlier = {}
             THEN << >>
             ELSE task_locals[CHOOSE u \in earlier : TRUE].completed_transmissions,
         in_progress_transmissions |-> {}]

\* send_advert_to_all_peers up to its loop: the body built from the task's
\* arguments, `JoinMap::new()`, `HashMap::new()`.
TaskLocalsNew(t) ==
    [body |-> advert_update(
                  tasks[t],
                  select_data(enable_artifact_push,
                              [id |-> tasks[t].id, size |-> ARTIFACT_PUSH_THRESHOLD],
                              artifact_in_pool)),
     completed_transmissions |-> << >>,
     in_progress_transmissions |-> {}]

\* Mutant of completed_of: one delivery state is shared by all tasks.
completed_of_shared(t) ==
    LET us == {u \in DOMAIN task_locals :
                  task_locals[u].completed_transmissions # << >>}
    IN  IF us = {}
        THEN task_locals[t].completed_transmissions
        ELSE task_locals[CHOOSE u \in us : TRUE].completed_transmissions

\* The completed_transmissions a task's tick branch reads: its own local.
completed_of(t) == task_locals[t].completed_transmissions

\* The tick branch: `for (peer, connection_id) in transport.peers()`, with
\* `if !is_completed { .. spawn_on(peer, task, ..) }` for each.
RECURSIVE tick_branch(_, _, _, _)
tick_branch(map, completed, message, ps) ==
    IF ps = << >>
    THEN map
    ELSE LET peer == Head(ps)[1]
             connection_id == Head(ps)[2]
             map1 ==
                 IF is_completed(completed, peer, connection_id)
                 THEN map
                 ELSE spawn_on(map, TransmissionKey(peer, connection_id),
                               send_advert_to_peer(connection_id, message, peer))
         IN  tick_branch(map1, completed, message, Tail(ps))

\* What a step of a task or of one of its transmitters leaves alone.
SystemTaskUnchanged ==
    /\ EventLoopUnchanged
    /\ UNCHANGED << broadcast_vars, adverts_to_send, peak_active_adverts >>

\* send_advert_to_all_peers, first poll: the locals are created, the task
\* suspends in select!.
SystemStart(t) ==
    /\ tasks[t].pc = "start"
    /\ ~tasks[t].aborted
    /\ tasks' = [tasks EXCEPT ![t].pc = "select"]
    /\ task_locals' = (t :> TaskLocalsNew(t)) @@ task_locals
    /\ SystemTaskUnchanged

\* The tick branch runs over the peers and the task suspends in select!
\* again (also when an abort was requested meanwhile).
SystemTickDone(t) ==
    /\ tasks[t].pc = "tick"
    /\ tasks' = [tasks EXCEPT ![t].pc = "select"]
    /\ task_locals' =
           [task_locals EXCEPT ![t].in_progress_transmissions =
               tick_branch(@, completed_of(t), task_locals[t].body, peers(transport))]
    /\ SystemTaskUnchanged

\* select!: join_next() yields Ok((connection_id, peer)); the pair is recorded.
SystemJoin(t) ==
    /\ tasks[t].pc = "select"
    /\ ~tasks[t].aborted
    /\ \E r \in join_ready(task_locals[t].in_progress_transmissions) :
           task_locals' =
               [task_locals EXCEPT
                   ![t].in_progress_transmissions = @ \ {r},
                   ![t].completed_transmissions =
                       record_delivery(@, [peer |-> r.peer, connection_id |-> r.result])]
    /\ UNCHANGED tasks
    /\ SystemTaskUnchanged

\* The runtime drops an aborted task found at a suspension point, and with
\* it its JoinMap.
SystemDrop(t) ==
    /\ tasks[t].pc \in {"start", "select"}
    /\ tasks[t].aborted
    /\ tasks' = [tasks EXCEPT ![t].pc = "cancelled"]
    /\ task_locals' =
           IF t \in DOMAIN task_locals
           THEN [task_locals EXCEPT ![t].in_progress_transmissions = join_map_drop(@)]
           ELSE task_locals
    /\ SystemTaskUnchanged

\* send_advert_to_peer of task t: the push is accepted.
SystemPushOk(t, r) ==
    /\ r.pc = "pushing"
    /\ transport[r.peer].state = "ok"
    /\ task_locals' =
           [task_locals EXCEPT ![t].in_progress_transmissions =
               (@ \ {r}) \cup {push_accepted(r, transport[r.peer].conn)}]
    /\ UNCHANGED tasks
    /\ SystemTaskUnchanged

\* send_advert_to_peer of task t: the push fails, the transmitter sleeps.
SystemPushFail(t, r) ==
    /\ r.pc = "pushing"
    /\ transport[r.peer].state # "ok"
    /\ task_locals' =
           [task_locals EXCEPT ![t].in_progress_transmissions =
               (@ \ {r}) \cup {push_failed(r)}]
    /\ UNCHANGED tasks
    /\ SystemTaskUnchanged

\* send_advert_to_peer of task t: the sleep is over, the next push is made.
SystemRetry(t, r) ==
    /\ r.pc = "sleeping"
    /\ task_locals' =
           [task_locals EXCEPT ![t].in_progress_transmissions =
               (@ \ {r}) \cup {[r EXCEPT !.pc = "pushing", !.sleep = "none"]}]
    /\ UNCHANGED tasks
    /\ SystemTaskUnchanged

\* ConsensusManagerSender::run with an empty validated pool, and a transport
\* that reports every peer on its first connection.
SystemInit ==
    /\ SystemIdle
    /\ enable_artifact_push = ENABLE_ARTIFACT_PUSH
    /\ advert = [id |-> "none", size |-> 0]
    /\ artifact_in_pool = TRUE
    /\ body = << >>
    /\ completed_transmissions = << >>
    /\ in_progress_transmissions = {}
    /\ tick_peers = << >>
    /\ join_result = << >>
    /\ transport = [x \in Peers |-> [state |-> "ok", conn |-> 1]]
    /\ pushed = {}
    /\ delivered_at = << >>
    /\ loop_pc = "replay"
    /\ artifacts_in_validated_pool = << >>
    /\ current_commit_id = 0
    /\ active_adverts = << >>
    /\ slot_manager = SlotManagerNew
    /\ metrics = MetricsNew
    /\ tasks = << >>
    /\ startup_adverts = 0
    /\ stream_events = 0
    /\ last_event = [kind |-> "none", id |-> "none", source |-> "none", active |-> FALSE]
    /\ last_kind = [i \in Ids |-> "none"]

SystemNext ==
    \/ ReplayDone
    \/ \E id \in SystemIds : stream_events < MaxSystemEvents /\ RecvAdvert(id)
    \/ \E id \in SystemIds : stream_events < MaxSystemEvents /\ RecvPurge(id)
    \/ \E t \in DOMAIN tasks : SystemStart(t)
    \/ \E t \in DOMAIN tasks : TaskTick(t)
    \/ \E t \in DOMAIN tasks : SystemTickDone(t)
    \/ \E t \in DOMAIN tasks : SystemJoin(t)
    \/ \E t \in DOMAIN tasks : SystemDrop(t)
    \/ \E t \in DOMAIN task_locals :
           \E r \in task_locals[t].in_progress_transmissions : SystemPushOk(t, r)
    \/ \E t \in DOMAIN task_locals :
           \E r \in task_locals[t].in_progress_transmissions : SystemPushFail(t, r)
    \/ \E t \in DOMAIN task_locals :
           \E r \in task_locals[t].in_progress_transmissions : SystemRetry(t, r)
    \/ \E peer \in Peers : \E state \in {"unreachable", "ok"} : PeerChange(peer, state)

SystemSpec == SystemInit /\ [][SystemNext]_vars

\* The Peer Transmitters of task t (none before its first poll).
TransmittersOf(t) ==
    IF t \in DOMAIN task_locals
    THEN task_locals[t].in_progress_transmissions
    ELSE {}

\* The step ends the tick branch of task t.
TickBranchStep(t) == tasks[t].pc = "tick" /\ tasks'[t].pc = "select"

\* What the tick branch of t has to spawn going by the task's own state:
\* the reported peers not recorded at their ConnId and not in its JoinMap.
OwnTargets(t) ==
    {ps \in Range(peers(transport)) :
        /\ ~is_completed(task_locals[t].completed_transmissions, ps[1], ps[2])
        /\ \A r \in task_locals[t].in_progress_transmissions : r.peer # ps[1]}

\* C27: a step changes the locals of at most one Broadcast Task, and what a
\* tick branch spawns depends on the task's own delivery state and JoinMap
\* alone: a peer another task delivered to is still a target of this task.
C27_TasksAreIndependent ==
    [][/\ \A t, u \in DOMAIN task_locals :
              (t # u /\ task_locals'[t] # task_locals[t]) =>
                  task_locals'[u] = task_locals[u]
       /\ \A t \in DOMAIN task_locals :
              TickBranchStep(t) =>
                  \A ps \in OwnTargets(t) :
                      \E r \in task_locals'[t].in_progress_transmissions :
                          /\ r.peer = ps[1]
                          /\ r.connection_id = ps[2]
                          /\ r.pc = "pushing"
                          /\ r.message = task_locals[t].body]_vars

\* C27 witness: two active artifacts; the task of one has recorded its
\* delivery to a peer, the task of the other has its own transmission to
\* that peer under way and nothing recorded.
C27_Witness ==
    \E t, u \in DOMAIN task_locals : \E peer \in Peers :
        /\ tasks[t].id # tasks[u].id
        /\ ~tasks[t].aborted /\ ~tasks[u].aborted
        /\ peer \in DOMAIN task_locals[t].completed_transmissions
        /\ task_locals[u].completed_transmissions = << >>
        /\ \E r \in task_locals[u].in_progress_transmissions :
               r.peer = peer /\ Live(r)

\* The pushes a step issues for task t: its transmitters that enter a push.
PushesIssued(t) ==
    IF t \in DOMAIN task_locals'
    THEN {r \in task_locals'[t].in_progress_transmissions :
             r.pc = "pushing" /\ r \notin TransmittersOf(t)}
    ELSE {}

\* C28 as stated: once the slot of a purged artifact is allocated to another
\* active advert, no push carrying that slot is made for the purged one.
C28_NoPushOnReallocatedSlot ==
    [][\A t \in DOMAIN tasks :
          (\E id \in DOMAIN active_adverts :
               /\ active_adverts[id].task # t
               /\ active_adverts[id].slot = tasks[t].slot_number) =>
              PushesIssued(t) = {}]_vars

\* C28 amended: a slot passes to a later task only after the abort of the
\* earlier one was requested, and the later task has a strictly higher
\* commit id; every push of a task carries the task's own slot and commit
\* id; and once the earlier task is dropped it issues no push. (Until then
\* its transmitters may push on the slot alongside the later task's.)
C28_StalePushesAreOlder ==
    /\ [](\A t, u \in DOMAIN tasks :
              (t < u /\ tasks[t].slot_number = tasks[u].slot_number) =>
                  /\ tasks[t].aborted
                  /\ tasks[t].commit_id < tasks[u].commit_id)
    /\ [](\A t \in DOMAIN task_locals :
              \A r \in task_locals[t].in_progress_transmissions :
                  /\ r.message.slot_number = tasks[t].slot_number
                  /\ r.message.commit_id = tasks[t].commit_id
                  /\ r.message.data.id = tasks[t].id)
    /\ [][\A t \in DOMAIN tasks :
              tasks[t].pc = "cancelled" =>
                  /\ PushesIssued(t) = {}
                  /\ \A r \in TransmittersOf(t) : r.pc = "cancelled"]_vars

\* C28 witness: pushes for two different artifacts are under way on one
\* slot: the purged artifact's task is not dropped yet.
C28_Witness ==
    \E t, u \in DOMAIN task_locals :
        /\ t < u
        /\ tasks[t].id # tasks[u].id
        /\ tasks[t].slot_number = tasks[u].slot_number
        /\ \E r \in task_locals[t].in_progress_transmissions : r.pc = "pushing"
        /\ \E r \in task_locals[u].in_progress_transmissions : r.pc = "pushing"

\* C29: an Advert for an identity whose latest event was its Purge spawns a
\* new task with the commit id of that moment and the most recently freed
\* slot (or a fresh one); the task starts with an empty delivery state and an
\* empty JoinMap, and its tick branch targets every reported peer its own
\* state does not cover, whatever the purged task delivered.
C29_ReAdvertAfterPurge ==
    [][/\ \A id \in SystemIds :
              (/\ last_kind[id] = "Purge"
               /\ last_kind'[id] = "Advert") =>
                  /\ Len(tasks') = Len(tasks) + 1
                  /\ Last(tasks') =
                         SpawnedTask(
                             id, current_commit_id,
                             IF slot_manager.free_slots # << >>
                             THEN Last(slot_manager.free_slots)
                             ELSE slot_manager.next_free_slot)
                  /\ active_adverts'[id] =
                         [task |-> Len(tasks'), slot |-> Last(tasks').slot_number]
                  /\ Len(tasks') \notin DOMAIN task_locals'
       /\ \A t \in DOMAIN task_locals' \ DOMAIN task_locals :
              /\ task_locals'[t].completed_transmissions = << >>
              /\ task_locals'[t].in_progress_transmissions = {}
       /\ \A t \in DOMAIN task_locals :
              (TickBranchStep(t) /\ task_locals[t].completed_transmissions = << >>
                   /\ task_locals[t].in_progress_transmissions = {}) =>
                  \A ps \in Range(peers(transport)) :
                      \E r \in task_locals'[t].in_progress_transmissions :
                          r.peer = ps[1] /\ r.connection_id = ps[2]]_vars

\* C29 witness: an identity was advertised, delivered to a peer, purged and
\* advertised again; the new task, on the slot the purge freed, has its own
\* transmission to that peer under way.
C29_Witness ==
    \E t, u \in DOMAIN task_locals : \E peer \in Peers :
        /\ t < u
        /\ tasks[t].id = tasks[u].id
        /\ tasks[t].slot_number = tasks[u].slot_number
        /\ tasks[u].commit_id > tasks[t].commit_id + 1
        /\ peer \in DOMAIN task_locals[t].completed_transmissions
        /\ \E r \in task_locals[u].in_progress_transmissions :
               r.peer = peer /\ Live(r)

\* C30: the slots of the active adverts and the slots in the free pool are
\* disjoint, no slot is twice in the free pool or held by two adverts, and
\* together they are exactly the slots below the high-water mark.
C30_SlotPartition ==
    LET held == {active_adverts[id].slot : id \in DOMAIN active_adverts}
        free == Range(slot_manager.free_slots)
    IN  /\ held \cap free = {}
        /\ Cardinality(free) = Len(slot_manager.free_slots)
        /\ Cardinality(held) = Cardinality(DOMAIN active_adverts)
        /\ held \cup free = 0..(slot_manager.next_free_slot - 1)

\* C30 witness: three slots were issued; one is back in the free pool
\* after a purge, the other two are held by active adverts.
C30_Witness ==
    /\ slot_manager.next_free_slot = 3
    /\ Len(slot_manager.free_slots) = 1
    /\ Cardinality(DOMAIN active_adverts) = 2
    /\ \E t \in DOMAIN tasks : tasks[t].aborted

(***************************************************************************)
(* The event loop with the peak of its active adverts                      *)
(***************************************************************************)

\* The size of active_adverts after the handler, against the largest so far.
PeakRecord ==
    peak_active_adverts' =
        IF Cardinality(DOMAIN active_adverts') > peak_active_adverts
        THEN Cardinality(DOMAIN active_adverts')
        ELSE peak_active_adverts

\* What the event loop leaves alone, apart from the recorded peak.
PeakUnchanged == UNCHANGED << broadcast_vars, task_locals, adverts_to_send >>

\* start_event_loop, one iteration of `for artifact in artifacts_in_validated_pool`.
PeakReplayAdvert ==
    /\ loop_pc = "replay"
    /\ artifacts_in_validated_pool # << >>
    /\ LET id == Head(artifacts_in_validated_pool)
       IN  /\ handle_send_advert(id)
           /\ last_event' = Event("Advert", id, "replay")
           /\ last_kind' = [last_kind EXCEPT ![id] = "Advert"]
    /\ artifacts_in_validated_pool' = Tail(artifacts_in_validated_pool)
    /\ startup_adverts' = startup_adverts + 1
    /\ UNCHANGED << loop_pc, current_commit_id, stream_events >>
    /\ PeakRecord
    /\ PeakUnchanged

\* start_event_loop: recv() yields an Advert or a Purge, which is handled.
PeakRecv(kind, id) ==
    /\ loop_pc = "recv"
    /\ stream_events < MaxEvents
    /\ IF kind = "Advert" THEN handle_send_advert(id) ELSE handle_purge_advert(id)
    /\ current_commit_id' = inc_assign(current_commit_id)
    /\ stream_events' = stream_events + 1
    /\ last_event' = Event(kind, id, "stream")
    /\ last_kind' = [last_kind EXCEPT ![id] = kind]
    /\ UNCHANGED << loop_pc, artifacts_in_validated_pool, startup_adverts >>
    /\ PeakRecord
    /\ PeakUnchanged

PeakNext ==
    \/ PeakReplayAdvert
    \/ ReplayDone
    \/ \E kind \in {"Advert", "Purge"} : \E id \in Ids : PeakRecv(kind, id)
    \/ RecvNone

PeakSpec == Init /\ [][PeakNext]_vars

\* The slot numbers handed out so far: one per Broadcast Task spawned.
SlotsIssued == {tasks[t].slot_number : t \in DOMAIN tasks}

\* C31: the high-water mark of the SlotManager never decreases and is at
\* every moment the largest number of adverts that were active at the same
\* time so far; every slot number issued so far is below that peak.
C31_HighWaterMarkIsTight ==
    /\ [](/\ slot_manager.next_free_slot = peak_active_adverts
          /\ \A slot \in SlotsIssued : slot < peak_active_adverts)
    /\ [][slot_manager'.next_free_slot >= slot_manager.next_free_slot]_vars

\* C31 witness: two adverts were active at once, purges brought the number
\* down again, and a slot was handed out a second time.
C31_Witness ==
    /\ peak_active_adverts = 2
    /\ Cardinality(DOMAIN active_adverts) < peak_active_adverts
    /\ Len(tasks) > peak_active_adverts
    /\ slot_manager.next_free_slot = 2

\* C32: whenever the event loop is between two events, the slots-in-use
\* gauge is the number of entries of active_adverts and the difference of the
\* new-adverts and active-purges counters; the maximum-slots counter is the
\* high-water mark; and the four event counters add up to the number of
\* events handled, replayed startup adverts included.
C32_CounterAccounting ==
    /\ metrics.slot_manager_used_slots = Cardinality(DOMAIN active_adverts)
    /\ metrics.slot_manager_used_slots =
           metrics.send_view_consensus_new_adverts_total
               - metrics.send_view_consensus_purge_active_total
    /\ metrics.slot_manager_maximum_slots_total = slot_manager.next_free_slot
    /\ metrics.send_view_consensus_new_adverts_total
           + metrics.send_view_consensus_dup_adverts_total
           + metrics.send_view_consensus_purge_active_total
           + metrics.send_view_consensus_dup_purge_total = Handled

\* C32 witness: a replayed advert and stream events of all four kinds were
\* handled, and a freed slot was taken again below the high-water mark.
C32_Witness ==
    /\ startup_adverts = 1
    /\ metrics.send_view_consensus_new_adverts_total = 2
    /\ metrics.send_view_consensus_dup_adverts_total = 1
    /\ metrics.send_view_consensus_purge_active_total = 1
    /\ metrics.send_view_consensus_dup_purge_total = 1
    /\ metrics.slot_manager_maximum_slots_total = 1

\* The transport does not report the peer: it is not in the peer set.
Absent(peer) == transport[peer].state = "absent"

\* What the parts of C33 that hold as stated ask of a step, for one peer:
\* while the peer is absent its transmitter stays in the JoinMap, retrying,
\* unless the task is dropped; a recorded delivery is not removed, and is
\* only replaced by the result of a transmission that is joined; and an
\* iteration of the tick loop that finds the peer reported with the recorded
\* connection identifier spawns nothing.
LeftPeerKept(peer) ==
    /\ Absent(peer) =>
           \A r \in InFlight(peer) :
               Live(r) =>
                   \E r2 \in in_progress_transmissions' :
                       /\ r2.key = r.key
                       /\ r2.connection_id = r.connection_id
                       /\ \/ Live(r2)
                          \/ /\ r2.pc = "cancelled"
                             /\ \A t \in DOMAIN tasks : tasks'[t].pc = "cancelled"
    /\ peer \in DOMAIN completed_transmissions =>
           /\ peer \in DOMAIN completed_transmissions'
           /\ completed_transmissions'[peer] # completed_transmissions[peer] =>
                  /\ join_result # << >>
                  /\ join_result[1].peer = peer
                  /\ completed_transmissions'[peer] = join_result[1].connection_id
    /\ \A c \in 1..MaxConn :
           (/\ TickPeerStep(peer, c)
            /\ peer \in DOMAIN completed_transmissions
            /\ completed_transmissions[peer] = c) => NewTransmitters = {}

\* C33 as stated: a peer that left the peer set keeps its in-flight
\* transmitter and its recorded delivery, is not re-targeted when it returns
\* on the recorded connection identifier, and no transmitter is spawned for
\* it while it is absent.
C33_NoSpawnWhileAbsent ==
    [][\A peer \in Peers :
          /\ LeftPeerKept(peer)
          /\ Absent(peer) => \A r \in NewTransmitters : r.peer # peer]_vars

\* C33 amended: the same, but a transmitter may still be spawned for a peer
\* that left after the running tick had read the peer set; a tick that reads
\* the peer set while the peer is absent does not visit the peer, and a
\* transmitter is only ever spawned for the peer the tick loop is visiting.
C33_NoSpawnFromTickWithoutPeer ==
    [][\A peer \in Peers :
          /\ LeftPeerKept(peer)
          /\ \A t \in DOMAIN tasks :
                 (Absent(peer) /\ tasks[t].pc = "select" /\ tasks'[t].pc = "tick") =>
                     \A i \in DOMAIN tick_peers' : tick_peers'[i][1] # peer
          /\ \A r \in NewTransmitters :
                 r.peer = peer =>
                     /\ tick_peers # << >>
                     /\ Head(tick_peers)[1] = peer
                     /\ tick_peers' = Tail(tick_peers)]_vars

\* C33 witness: the peer is absent; a delivery to it is on record, a
\* transmitter for a later connection has failed a push and is retrying, and
\* a tick has run to its end without visiting the peer.
C33_Witness ==
    \E t \in DOMAIN tasks : \E peer \in Peers : \E r \in InFlight(peer) :
        /\ Absent(peer)
        /\ tasks[t].pc = "tick"
        /\ tick_peers = << >>
        /\ peer \in DOMAIN completed_transmissions
        /\ Live(r)
        /\ r.backoff > 0
        /\ r.connection_id > completed_transmissions[peer]

(***************************************************************************)
(* The sender and its Broadcast Tasks when the event stream is closed      *)
(***************************************************************************)

\* Events taken from the stream before it is closed.
MaxShutdownEvents == 2

\* start_event_loop with recv() yielding None at any moment, next to the
\* Broadcast Tasks spawned so far and their Peer Transmitters.
ShutdownNext ==
    \/ ReplayDone
    \/ \E id \in SystemIds : stream_events < MaxShutdownEvents /\ RecvAdvert(id)
    \/ \E id \in SystemIds : stream_events < MaxShutdownEvents /\ RecvPurge(id)
    \/ RecvNone
    \/ \E t \in DOMAIN tasks : SystemStart(t)
    \/ \E t \in DOMAIN tasks : TaskTick(t)
    \/ \E t \in DOMAIN tasks : SystemTickDone(t)
    \/ \E t \in DOMAIN tasks : SystemJoin(t)
    \/ \E t \in DOMAIN tasks : SystemDrop(t)
    \/ \E t \in DOMAIN task_locals :
           \E r \in task_locals[t].in_progress_transmissions : SystemPushOk(t, r)
    \/ \E t \in DOMAIN task_locals :
           \E r \in task_locals[t].in_progress_transmissions : SystemPushFail(t, r)
    \/ \E t \in DOMAIN task_locals :
           \E r \in task_locals[t].in_progress_transmissions : SystemRetry(t, r)
    \/ \E peer \in Peers : \E state \in {"unreachable", "ok"} : PeerChange(peer, state)

ShutdownSpec == SystemInit /\ [][ShutdownNext]_vars

\* Every Broadcast Task is a task of its own on the runtime: it is polled
\* when it is spawned and whenever its timer is ready.
ShutdownFairness ==
    \A t \in 1..MaxShutdownEvents :
        /\ WF_vars(t \in DOMAIN tasks /\ SystemStart(t))
        /\ WF_vars(t \in DOMAIN tasks /\ TaskTick(t))
        /\ WF_vars(t \in DOMAIN tasks /\ SystemTickDone(t))

FairShutdownSpec == ShutdownSpec /\ ShutdownFairness

\* The event loop has ended with id in active_adverts.
LeftActive(id) == loop_pc = "done" /\ id \in DOMAIN active_adverts

\* The Broadcast Task of an active identity is in its tick branch.
Reconciling(id) ==
    /\ id \in DOMAIN active_adverts
    /\ tasks[active_adverts[id].task].pc = "tick"

\* The Broadcast Task of an active identity has been polled.
Started(id) ==
    /\ id \in DOMAIN active_adverts
    /\ active_adverts[id].task \in DOMAIN task_locals

\* The Broadcast Task of an active identity has spawned a Peer Transmitter.
Sending(id) ==
    /\ Started(id)
    /\ \/ TransmittersOf(active_adverts[id].task) # {}
       \/ completed_of(active_adverts[id].task) # << >>

\* C34: once the event loop has ended on a closed stream, the Broadcast Task
\* of every identity in active_adverts is neither aborted nor dropped, its
\* transmitters are not cancelled and its slot is not in the free pool;
\* nothing the sender owns changes any more and no abort is requested any
\* more; every such task runs its reconciliation tick again and again, and
\* one that had not started yet starts and spawns its Peer Transmitters.
C34_ClosedStreamLeavesBroadcastsRunning ==
    /\ [](\A id \in SystemIds :
              LeftActive(id) =>
                  LET t == active_adverts[id].task
                  IN  /\ ~tasks[t].aborted
                      /\ tasks[t].pc # "cancelled"
                      /\ \A r \in TransmittersOf(t) : r.pc # "cancelled"
                      /\ active_adverts[id].slot \notin Range(slot_manager.free_slots))
    /\ [][loop_pc = "done" =>
              /\ UNCHANGED << loop_pc, active_adverts, slot_manager, metrics,
                              current_commit_id, stream_events >>
              /\ \A t \in DOMAIN tasks : tasks'[t].aborted = tasks[t].aborted]_vars
    /\ \A id \in SystemIds : LeftActive(id) ~> Reconciling(id)
    /\ \A id \in SystemIds : (LeftActive(id) /\ ~Started(id)) ~> Sending(id)

\* C34 witness: the loop has ended with two identities active; the task of
\* one has delivered to a peer, the task of the other has not started yet.
C34_Witness ==
    /\ loop_pc = "done"
    /\ Cardinality(DOMAIN active_adverts) = 2
    /\ \E id \in DOMAIN active_adverts :
           active_adverts[id].task \notin DOMAIN task_locals
    /\ \E id \in DOMAIN active_adverts :
           /\ active_adverts[id].task \in DOMAIN task_locals
           /\ completed_of(active_adverts[id].task) # << >>

====
